---- MODULE Spec2Model ----
(***************************************************************************)
(* A state-machine model of the DeepSearch ANN engine: the dense graph     *)
(* (src/unnamed/part_010, src/src/graph/graph.h), its on-disk format, the  *)
(* HNSW layer initializer (src/src/graph/HnswInitializer.h), the candidate *)
(* pool, the quantizers' reorder step and the Searcher.                    *)
(*                                                                         *)
(* The module holds several specifications over one set of variables; a    *)
(* specification only moves the variables of the component it is about.    *)
(*   SpecGraph   DenseGraph mutation, save and load                        *)
(*   SpecPool    LinearPool insert / pop and the quantizers' reorder       *)
(*   SpecSearch  the Searcher: SetData, SetEf and concurrent Search calls  *)
(*   SpecSearcher  the Searcher driven by one caller, Optimize included    *)
(*   SpecCodes   the pure computations, each applied to inputs drawn in    *)
(*               the initial state: distances over packed 4-bit codes, the *)
(*               quantizers' encode / decode, the configuration objects'   *)
(*               to_string / from_string and file format, the layered      *)
(*               descent, a run of pool inserts, extract_graph             *)
(*   SpecTerminate  one Search call at a time, its steps weakly fair       *)
(***************************************************************************)
EXTENDS Integers, Sequences, FiniteSets, TLC

VARIABLES
  graph,      \* the DenseGraph object under construction / loaded
  disk,       \* the cells of the file last written by save, or NoFile
  op,         \* the last operation on the object and its outcome
  pool,       \* a LinearPool driven directly (SpecPool)
  dst,        \* the output array of the last reorder on pool (SpecPool)
  pop_,       \* the id the last pop returned (SpecPool)
  sgraph,     \* the Searcher's copy of the graph (graph_)
  quant,      \* the Searcher's quantizer (quantizer_)
  ef_,        \* Searcher::ef_
  calls,      \* the Search calls in progress, one record per caller
  searcher,   \* the Searcher's other members: nb_, d_, po_, pl_ and the sample
  kernel      \* a pure computation: its inputs and its result (SpecCodes)

vars == <<graph, disk, op, pool, dst, pop_, sgraph, quant, ef_, calls, searcher, kernel>>


(***************************************************************************)
(* Bounds of the model.                                                    *)
(***************************************************************************)
MaxNodes == 2        \* DenseGraph::initialize is called with 0..MaxNodes nodes
MaxDegree == 2       \* ... and with max_degree 0..MaxDegree
MaxWrap == 1         \* total_edges is followed down to -MaxWrap (wrapped size_t)
MaxEdges == 4        \* ... and up to MaxEdges

EMPTY_ID == -1

Min(a, b) == IF a < b THEN a ELSE b
Max(a, b) == IF a > b THEN a ELSE b

Range(s) == {s[i] : i \in 1..Len(s)}

\* All sequences over S of length 0..n.
SeqsUpTo(S, n) == UNION {[1..m -> S] : m \in 0..n}

(***************************************************************************)
(* DenseGraph<int>.  data is the flat row-major edge array: at(i, j) is    *)
(* data[i * max_degree + j + 1] (sequences are 1-based).  size_t fields    *)
(* whose value wrapped below zero are kept as the negative integer v that  *)
(* stands for 2^64 + v.                                                    *)
(***************************************************************************)
NoInit == [present |-> FALSE]

EmptyGraph ==
  [num_nodes |-> 0, max_degree |-> 0, data |-> <<>>, degrees |-> <<>>,
   entry_points |-> <<>>, initializer |-> NoInit, total_edges |-> 0,
   builder_name |-> <<>>, distance_type |-> <<>>]

At(g, i, j) == g.data[i * g.max_degree + j + 1]

Row(g, i) == [j \in 1..g.max_degree |-> At(g, i, j - 1)]

\* cleanup(): frees the array and clears everything but metadata_.
Cleanup(g) ==
  [g EXCEPT !.num_nodes = 0, !.max_degree = 0, !.data = <<>>,
            !.degrees = <<>>, !.entry_points = <<>>, !.initializer = NoInit]

\* initialize(num_nodes, max_degree)
Initialize(g, n, r) ==
  LET c == Cleanup(g)
      alloc == n > 0 /\ r > 0
  IN [c EXCEPT !.num_nodes = n, !.max_degree = r,
               !.data = IF alloc THEN [x \in 1..(n * r) |-> EMPTY_ID] ELSE <<>>,
               !.degrees = IF alloc THEN [x \in 1..n |-> 0] ELSE <<>>,
               !.total_edges = 0]

\* A row's cells replaced: row i of g becomes new (a sequence of max_degree ids).
WithRow(g, i, new) ==
  [g EXCEPT !.data = [x \in 1..Len(g.data) |->
                        IF x > i * g.max_degree /\ x <= (i + 1) * g.max_degree
                        THEN new[x - i * g.max_degree] ELSE g.data[x]]]

\* set_neighbors(node_id, neighbors, count): "throw" is reported by the action.
SetNeighborsThrows(g, node, nbrs) ==
  node >= g.num_nodes \/ Len(nbrs) > g.max_degree

SetNeighbors(g, node, nbrs) ==
  LET new == [j \in 1..g.max_degree |->
                IF j <= Len(nbrs) THEN nbrs[j] ELSE EMPTY_ID]
  IN [WithRow(g, node, new) EXCEPT !.degrees[node + 1] = Len(nbrs)]

EdgeThrows(g, from, to) == from >= g.num_nodes \/ to >= g.num_nodes

\* The first `degree` slots of row `from` hold `to`.
HasEdge(g, from, to) ==
  \E i \in 0..(g.degrees[from + 1] - 1) : At(g, from, i) = to

\* A variant of add_edge without the "already present" scan.
AddEdgeNoScan(g, from, to) ==
  LET degree == g.degrees[from + 1]
  IN IF degree < g.max_degree
     THEN [g EXCEPT !.data[from * g.max_degree + degree + 1] = to,
                    !.degrees[from + 1] = degree + 1,
                    !.total_edges = g.total_edges + 1]
     ELSE g

\* add_edge(from, to), for arguments that do not throw.
AddEdge(g, from, to) ==
  LET degree == g.degrees[from + 1]
  IN IF HasEdge(g, from, to) THEN g
     ELSE IF degree < g.max_degree
     THEN [g EXCEPT !.data[from * g.max_degree + degree + 1] = to,
                    !.degrees[from + 1] = degree + 1,
                    !.total_edges = g.total_edges + 1]
     ELSE g

\* remove_edge(from, to), for arguments that do not throw: the first match
\* among the first `degree` slots is removed and the tail shifted left.
RemoveEdge(g, from, to) ==
  LET degree == g.degrees[from + 1]
      hits == {i \in 0..(degree - 1) : At(g, from, i) = to}
  IN IF hits = {} THEN g
     ELSE LET i == CHOOSE h \in hits : \A h2 \in hits : h <= h2
              old == Row(g, from)
              new == [j \in 1..g.max_degree |->
                        IF j - 1 >= i /\ j - 1 < degree - 1 THEN old[j + 1]
                        ELSE IF j - 1 = degree - 1 THEN EMPTY_ID
                        ELSE old[j]]
          IN [WithRow(g, from, new) EXCEPT !.degrees[from + 1] = degree - 1,
                                           !.total_edges = g.total_edges - 1]

\* at(i, j) = v through the mutable accessor.
AtWrite(g, i, j, v) == [g EXCEPT !.data[i * g.max_degree + j + 1] = v]

SetEntryPoints(g, eps) == [g EXCEPT !.entry_points = eps]

SetInitializer(g, init) == [g EXCEPT !.initializer = init]

\* degree(node_id)
Degree(g, i) == g.degrees[i + 1]

(***************************************************************************)
(* The on-disk format.  A file is a sequence of cells; a cell is one       *)
(* 32-bit little-endian word, kept as the int it reads back as.  An int    *)
(* (node id, N, K, ep, cur) takes one cell.  A size_t takes two cells,     *)
(* low word first: a value v in [0, 2^31) is <<v, 0>>, and a wrapped value *)
(* 2^64 + v with v in [-2^31, 0) is <<v, -1>>.  Any other pair of cells    *)
(* read back as a size_t is a value of at least 2^31, which the model      *)
(* keeps as Huge.  The two metadata strings are always empty (nothing in   *)
(* the sources assigns them), so their bytes never reach a file.           *)
(***************************************************************************)
\* No file at the path.  A file is a sequence of cells that starts with a
\* count (N, or num_nodes), which save never writes negative; the marker is
\* a sequence no file equals.
NoFile == <<EMPTY_ID>>

Huge == (2^30 - 1) + 2^30

U64Cells(v) == IF v >= 0 THEN <<v, 0>> ELSE <<v, -1>>

U64Read(lo, hi) ==
  IF hi = 0 /\ lo >= 0 THEN lo
  ELSE IF hi = -1 /\ lo < 0 THEN lo
  ELSE Huge

RECURSIVE Flatten(_)
Flatten(ss) == IF ss = <<>> THEN <<>> ELSE Head(ss) \o Flatten(Tail(ss))

\* HnswInitializer::save
InitializerSave(h) ==
  <<h.N, h.K, h.ep>> \o
  Flatten([i \in 1..Max(h.N, 0) |->
             LET cur == h.levels[i] * h.K
             IN <<cur>> \o SubSeq(h.lists[i], 1, cur)])

\* DenseGraph::save, for a file that opens and a disk that takes every write.
Save(g) ==
  (IF g.initializer.present THEN InitializerSave(g.initializer) ELSE <<>>)
  \o U64Cells(g.num_nodes) \o U64Cells(g.max_degree)
  \o g.data
  \o U64Cells(Len(g.degrees)) \o Flatten([i \in 1..Len(g.degrees) |-> U64Cells(g.degrees[i])])
  \o U64Cells(Len(g.entry_points))
  \o Flatten([i \in 1..Len(g.entry_points) |-> U64Cells(g.entry_points[i])])
  \o U64Cells(g.total_edges)
  \o U64Cells(Len(g.builder_name)) \o g.builder_name
  \o U64Cells(Len(g.distance_type)) \o g.distance_type

\* The capacity load() constructs its HnswInitializer with, and its K.
LoadInitN == 1000000
LoadInitK == 16

\* C++ integer division truncates toward zero.
CDiv(a, b) ==
  IF (a >= 0) = (b > 0) THEN (IF a >= 0 THEN a ELSE -a) \div (IF b > 0 THEN b ELSE -b)
  ELSE -((IF a >= 0 THEN a ELSE -a) \div (IF b > 0 THEN b ELSE -b))

(* HnswInitializer::load from the head of file f.  The result is            *)
(* [st, h, pos]: pos cells were consumed.  st is "ok", or the first error:  *)
(*   "div0"      cur / K with K = 0 (undefined behaviour)                   *)
(*   "oob"       levels[i] / lists[i] written past the LoadInitN entries    *)
(*   "eof"       a read past the end of the file, which leaves an           *)
(*               uninitialized int cur to be used (undefined behaviour)     *)
(*   "bad_alloc" assign(cur, -1) with cur < 0                               *)
RECURSIVE InitializerLoadRows(_, _, _, _, _, _)
InitializerLoadRows(f, N, K, i, pos, acc) ==
  IF i >= N THEN [st |-> "ok", levels |-> acc.levels, lists |-> acc.lists, pos |-> pos]
  ELSE IF i >= LoadInitN THEN [st |-> "oob", levels |-> acc.levels, lists |-> acc.lists, pos |-> pos]
  ELSE IF pos + 1 > Len(f) THEN [st |-> "eof", levels |-> acc.levels, lists |-> acc.lists, pos |-> pos]
  ELSE LET cur == f[pos + 1]
       IN IF K = 0 THEN [st |-> "div0", levels |-> acc.levels, lists |-> acc.lists, pos |-> pos + 1]
          ELSE IF cur < 0 THEN [st |-> "bad_alloc", levels |-> acc.levels, lists |-> acc.lists, pos |-> pos + 1]
          ELSE IF pos + 1 + cur > Len(f) THEN [st |-> "eof", levels |-> acc.levels, lists |-> acc.lists, pos |-> Len(f)]
          ELSE InitializerLoadRows(f, N, K, i + 1, pos + 1 + cur,
                 [levels |-> Append(acc.levels, CDiv(cur, K)),
                  lists |-> Append(acc.lists, SubSeq(f, pos + 2, pos + 1 + cur))])

\* A read past the end of the file stores nothing: N, K and ep keep what
\* the constructor HnswInitializer(LoadInitN, LoadInitK) gave them.
InitializerLoad(f) ==
  LET N == IF Len(f) >= 1 THEN f[1] ELSE LoadInitN
      K == IF Len(f) >= 2 THEN f[2] ELSE LoadInitK
      r == InitializerLoadRows(f, N, K, 0, Min(3, Len(f)), [levels |-> <<>>, lists |-> <<>>])
  IN [st |-> r.st, pos |-> r.pos,
      h |-> [present |-> TRUE, N |-> N, K |-> K, ep |-> IF Len(f) >= 3 THEN f[3] ELSE 0,
             levels |-> r.levels, lists |-> r.lists]]

\* n size_t values read from f after pos; Huge pairs are kept as Huge.
U64Seq(f, pos, n) == [i \in 1..n |-> U64Read(f[pos + 2 * i - 1], f[pos + 2 * i])]

(* DenseGraph::load of file f into graph g0.  The result is [st, g]; st is  *)
(* "ok" when every read found its bytes, or the first error met:           *)
(*   those of InitializerLoad;                                             *)
(*   "bad_alloc" for an array or a vector of 2^31 or more elements;        *)
(*   "eof"       for a short file: istream::read fails, nothing throws,    *)
(*               load returns with the remaining sizes uninitialized;      *)
(*   "garbage"   for a non-empty metadata string, whose bytes are not      *)
(*               aligned to cells: load returns with whatever it read.     *)
(* No path of load compares an id with num_nodes or a degree with its row. *)
TooBig(x) == x = Huge \/ x < 0

\* metadata: total_edges and the two strings
LoadMetadata(g, f, p) ==
  IF p + 6 > Len(f) THEN [st |-> "eof", g |-> g]
  ELSE IF U64Read(f[p + 3], f[p + 4]) # 0 \/ U64Read(f[p + 5], f[p + 6]) # 0
  THEN [st |-> "garbage", g |-> [g EXCEPT !.total_edges = U64Read(f[p + 1], f[p + 2])]]
  ELSE [st |-> "ok", g |-> [g EXCEPT !.total_edges = U64Read(f[p + 1], f[p + 2])]]

\* entry_points_: its size, then its elements
LoadEntryPoints(g, f, p, en) ==
  IF TooBig(en) THEN [st |-> "bad_alloc", g |-> g]
  ELSE IF p + 2 + 2 * en > Len(f) THEN [st |-> "eof", g |-> g]
  ELSE LoadMetadata([g EXCEPT !.entry_points = U64Seq(f, p + 2, en)], f, p + 2 + 2 * en)

\* degrees_: its size, then its elements
LoadDegrees(g, f, p, dn) ==
  IF TooBig(dn) THEN [st |-> "bad_alloc", g |-> g]
  ELSE IF p + 2 + 2 * dn + 2 > Len(f) THEN [st |-> "eof", g |-> g]
  ELSE LoadEntryPoints([g EXCEPT !.degrees = U64Seq(f, p + 2, dn)], f, p + 2 + 2 * dn,
                       U64Read(f[p + 2 + 2 * dn + 1], f[p + 2 + 2 * dn + 2]))

\* data_: num_nodes * max_degree ints when both are non-zero
LoadData(g, f, p, cells) ==
  IF p + cells + 2 > Len(f) THEN [st |-> "eof", g |-> g]
  ELSE LoadDegrees([g EXCEPT !.data = SubSeq(f, p + 1, p + cells)], f, p + cells,
                   U64Read(f[p + cells + 1], f[p + cells + 2]))

\* num_nodes_ and max_degree_
LoadSizes(g, f, p, n, r) ==
  IF n # 0 /\ r # 0 /\ (TooBig(n) \/ TooBig(r))
  THEN [st |-> "bad_alloc", g |-> [g EXCEPT !.num_nodes = n, !.max_degree = r]]
  ELSE LoadData([g EXCEPT !.num_nodes = n, !.max_degree = r], f, p,
                IF n # 0 /\ r # 0 THEN n * r ELSE 0)

LoadBlock(c, hl, f) ==
  IF hl.st # "ok" THEN [st |-> hl.st, g |-> [c EXCEPT !.initializer = hl.h]]
  ELSE IF hl.pos + 4 > Len(f) THEN [st |-> "eof", g |-> [c EXCEPT !.initializer = hl.h]]
  ELSE LoadSizes([c EXCEPT !.initializer = hl.h], f, hl.pos + 4,
                 U64Read(f[hl.pos + 1], f[hl.pos + 2]), U64Read(f[hl.pos + 3], f[hl.pos + 4]))

Load(g0, f) == LoadBlock(Cleanup(g0), InitializerLoad(f), f)

(***************************************************************************)
(* HNSWBuilder::extract_graph.  The hnswlib index it reads is not part of  *)
(* the sources; it is kept as a snapshot h of what extract_graph reads:    *)
(*   h.count        cur_element_count                                      *)
(*   h.levels[i]    element_levels_[i]                                     *)
(*   h.link0[i]     get_linklist0(i): the level-0 neighbors, at most 2M    *)
(*   h.linkU[i][l]  get_linklist(i, l): the layer-l neighbors, at most M   *)
(*   h.ep           enterpoint_node_                                       *)
(* n is current_size_, the number of points of the last build call; a      *)
(* builder that has built more points before holds count > n elements.     *)
(***************************************************************************)
\* extract_graph that allocates the Graph and copies nothing
ExtractGraphAllocates(h, n, M) == Initialize(EmptyGraph, n, 2 * M)

ExtractGraph(h, n, M) ==
  LET g0 == Initialize(EmptyGraph, n, 2 * M)
      rows == [i \in 1..n |-> SubSeq(h.link0[i], 1, Min(Len(h.link0[i]), 2 * M))]
      data == Flatten([i \in 1..n |->
                [j \in 1..(2 * M) |-> IF j <= Len(rows[i]) THEN rows[i][j] ELSE EMPTY_ID]])
      init == [present |-> TRUE, N |-> n, K |-> M, ep |-> h.ep,
               levels |-> [i \in 1..n |-> h.levels[i]],
               lists |-> [i \in 1..n |->
                  Flatten([l \in 1..h.levels[i] |->
                    [k \in 1..M |-> IF k <= Len(h.linkU[i][l]) THEN h.linkU[i][l][k]
                                             ELSE EMPTY_ID]])]]
  IN IF n = 0 THEN EmptyGraph
     ELSE SetEntryPoints(
            SetInitializer([g0 EXCEPT !.data = data,
                                      !.degrees = [i \in 1..n |-> Len(rows[i])]], init),
            <<h.ep>>)

MaxLevel == 1        \* element levels 0..MaxLevel
BuilderM == 1        \* config_.M

\* Sequences over S without repetition, of length 0..n.
InjSeqs(S, n) == {q \in SeqsUpTo(S, n) : \A a, b \in 1..Len(q) : a # b => q[a] # q[b]}

\* The index holding c elements: links name other elements, a layer-l link
\* names an element of level l or more, the entry point has the top level.
HnswSnapshots(c) ==
  UNION {
    {[count |-> c, levels |-> lv, link0 |-> l0, linkU |-> lu, ep |-> e] :
        e \in {x \in 0..(c - 1) : \A y \in 1..c : lv[y] <= lv[x + 1]},
        l0 \in {f \in [1..c -> InjSeqs(0..(c - 1), 2 * BuilderM)] :
                  \A i \in 1..c : (i - 1) \notin Range(f[i])},
        lu \in {f \in [1..c -> [1..MaxLevel -> InjSeqs(0..(c - 1), BuilderM)]] :
                  \A i \in 1..c : \A l \in 1..MaxLevel :
                     /\ (i - 1) \notin Range(f[i][l])
                     /\ l > lv[i] => f[i][l] = <<>>
                     /\ \A x \in Range(f[i][l]) : lv[x + 1] >= l}} :
    lv \in [1..c -> 0..MaxLevel]}

(***************************************************************************)
(* SpecGraph: one DenseGraph object driven through its public interface.   *)
(* A graph is built by hand (initialize and the mutators) or extracted by  *)
(* the builder, saved, and the file is loaded into a fresh Graph, which    *)
(* may be saved again; initialize starts over.  op.addOnly                 *)
(* records that, since the last initialize, the only mutator used was      *)
(* add_edge.                                                               *)
(***************************************************************************)
IdInputs == (-1)..MaxNodes        \* ids passed in: the sentinel, ids, one id past the end
NodeInputs == 0..MaxNodes         \* size_t arguments
\* neighbor arrays: every array that fits a row, and one that does not
NeighborInputs == SeqsUpTo(IdInputs, MaxDegree) \cup {[j \in 1..(MaxDegree + 1) |-> 0]}

Building == disk = NoFile /\ Len(graph.degrees) > 0 /\ ~graph.initializer.present

OtherIdle == UNCHANGED <<pool, dst, pop_, sgraph, quant, ef_, calls, searcher, kernel>>

InitializeAct ==
  /\ \E n \in 0..MaxNodes, r \in 0..MaxDegree : graph' = Initialize(graph, n, r)
  /\ disk' = NoFile
  /\ op' = [name |-> "build", st |-> "ok", addOnly |-> TRUE]
  /\ OtherIdle

\* extract_graph fills a Graph it has just constructed.  With no points it
\* returns Graph(), the graph of the initial state.
ExtractAct ==
  /\ op.name = "new"
  /\ \E c \in 1..MaxNodes : \E h \in HnswSnapshots(c) : \E n \in 1..c :
       graph' = ExtractGraph(h, n, BuilderM)
  /\ disk' = NoFile
  /\ op' = [name |-> "extract", st |-> "ok", addOnly |-> FALSE]
  /\ OtherIdle

SetNeighborsAct ==
  /\ Building
  /\ \E node \in NodeInputs, nbrs \in NeighborInputs :
       IF SetNeighborsThrows(graph, node, nbrs)
       THEN UNCHANGED <<graph, op>>
       ELSE /\ graph' = SetNeighbors(graph, node, nbrs)
            /\ op' = [name |-> "build", st |-> "ok", addOnly |-> FALSE]
  /\ UNCHANGED disk
  /\ OtherIdle

\* total_edges only grows when a row is rewritten between add_edge calls:
\* the counter is capped at MaxEdges.
AddEdgeAct ==
  /\ Building
  /\ graph.total_edges < MaxEdges
  /\ \E from \in NodeInputs, to \in NodeInputs :
       IF EdgeThrows(graph, from, to)
       THEN UNCHANGED <<graph, op>>
       ELSE /\ graph' = AddEdge(graph, from, to)
            /\ op' = [op EXCEPT !.name = "build"]
  /\ UNCHANGED disk
  /\ OtherIdle

RemoveEdgeAct ==
  /\ Building
  /\ graph.total_edges > -MaxWrap
  /\ \E from \in NodeInputs, to \in NodeInputs :
       IF EdgeThrows(graph, from, to)
       THEN UNCHANGED <<graph, op>>
       ELSE /\ graph' = RemoveEdge(graph, from, to)
            /\ op' = [name |-> "build", st |-> "ok", addOnly |-> FALSE]
  /\ UNCHANGED disk
  /\ OtherIdle

AtWriteAct ==
  /\ Building
  /\ \E i \in 0..(graph.num_nodes - 1), j \in 0..(graph.max_degree - 1),
        v \in (-1)..(graph.num_nodes - 1) :
       graph' = AtWrite(graph, i, j, v)
  /\ op' = [name |-> "build", st |-> "ok", addOnly |-> FALSE]
  /\ UNCHANGED disk
  /\ OtherIdle

SetEntryPointsAct ==
  /\ disk = NoFile
  /\ ~graph.initializer.present
  /\ \E eps \in SeqsUpTo(NodeInputs, 1) : graph' = SetEntryPoints(graph, eps)
  /\ op' = [op EXCEPT !.name = "build"]
  /\ UNCHANGED disk
  /\ OtherIdle

\* save(filename) of an object that a load left whole.
\* What is left at the path when the device stops taking data during save:
\* the open has created the file, and every write after the failure is
\* dropped by the stream.  Two failures are followed: at the first write,
\* and half way through the file.
WriteFailures(f) == {SubSeq(f, 1, c) : c \in {0, Len(f) \div 2}}

(* save(filename).  No write is checked and the stream does not throw, so *)
(* save returns normally whether or not the device took the data.          *)
SaveAct ==
  /\ ~(op.name = "load" /\ op.st # "ok")
  /\ disk' \in {Save(graph)} \cup WriteFailures(Save(graph))
  /\ op' = [op EXCEPT !.name = "save", !.st = "ok"]
  /\ UNCHANGED graph
  /\ OtherIdle

(* load(filename) into a fresh Graph.  Division by zero is undefined: the   *)
(* process dies of SIGFPE (x86-64) or the quotient is 0 and load goes on    *)
(* (aarch64); either way the Graph is not the one that was saved.           *)
LoadAct ==
  /\ disk # NoFile
  /\ LET r == Load(EmptyGraph, disk)
     IN /\ graph' = r.g
        /\ \E st \in (IF r.st = "div0" THEN {"crash", "garbage"} ELSE {r.st}) :
             op' = [op EXCEPT !.name = "load", !.st = st]
  /\ UNCHANGED disk
  /\ OtherIdle

\* A default-constructed Graph; no pool and no Searcher exist.
GraphInit ==
  /\ graph = EmptyGraph /\ disk = NoFile
  /\ op = [name |-> "new", st |-> "ok", addOnly |-> TRUE]
  /\ pool = <<>> /\ dst = <<>> /\ pop_ = <<>>
  /\ sgraph = EmptyGraph /\ quant = <<>> /\ ef_ = 0 /\ calls = <<>> /\ searcher = <<>>
  /\ kernel = <<>>

GraphNext ==
  \/ InitializeAct
  \/ ExtractAct
  \/ SetNeighborsAct
  \/ AddEdgeAct
  \/ RemoveEdgeAct
  \/ AtWriteAct
  \/ SetEntryPointsAct
  \/ SaveAct
  \/ LoadAct

SpecGraph == GraphInit /\ [][GraphNext]_vars

(***************************************************************************)
(* LinearPool, the candidate pool of one Search call.  neighbor.h is not   *)
(* among the sources; the pool is modelled from its description:           *)
(*   insert(id, dist): binary search for position; if position >= capacity *)
(*     drop; else shift entries right (evicting the worst when full),      *)
(*     store, update size, cursor = min(cursor, position);                 *)
(*   pop(): return the entry at cursor, advance cursor; does not remove;   *)
(*   has_next(): cursor < size.                                            *)
(* data holds the size entries, each [id, dist]; vis is the visited set.   *)
(***************************************************************************)
NewPool(n, capacity) ==
  [nb |-> n, capacity |-> capacity, cur |-> 0, data |-> <<>>, vis |-> {}]

PoolSize(p) == Len(p.data)
PoolId(p, i) == p.data[i + 1].id

\* The position after every entry whose distance is at most dist.
RECURSIVE FindBsearch(_, _, _, _)
FindBsearch(data, dist, lo, hi) ==
  IF lo >= hi THEN lo
  ELSE IF data[((lo + hi) \div 2) + 1].dist > dist
       THEN FindBsearch(data, dist, lo, (lo + hi) \div 2)
       ELSE FindBsearch(data, dist, ((lo + hi) \div 2) + 1, hi)

InsertAt(data, pos, e) ==
  SubSeq(data, 1, pos) \o <<e>> \o SubSeq(data, pos + 1, Len(data))

\* A variant of insert that stores at the end instead of at the position found.
InsertAtEnd(p, id, dist) ==
  IF Len(p.data) >= p.capacity THEN p
  ELSE [p EXCEPT !.data = Append(p.data, [id |-> id, dist |-> dist])]

PoolInsertPos(p, id, dist, pos) ==
  IF pos >= p.capacity THEN p
  ELSE [p EXCEPT !.data = SubSeq(InsertAt(p.data, pos, [id |-> id, dist |-> dist]),
                                 1, Min(Len(p.data) + 1, p.capacity)),
                 !.cur = Min(p.cur, pos)]

PoolInsert(p, id, dist) ==
  PoolInsertPos(p, id, dist, FindBsearch(p.data, dist, 0, Len(p.data)))

HasNext(p) == p.cur < Len(p.data)
PoolPop(p) == [p EXCEPT !.cur = p.cur + 1]
\* a visited set that forgets: vis.set without effect
VisSetForgets(p, v) == p
VisSet(p, v) == [p EXCEPT !.vis = p.vis \cup {v}]

(***************************************************************************)
(* reorder.  std::sort leaves the order of equal distances open: the       *)
(* result is any arrangement of the candidates in ascending distance.      *)
(***************************************************************************)
Ascending(c) == \A i \in 1..(Len(c) - 1) : c[i].dist <= c[i + 1].dist

SortedArrangements(c) ==
  {[i \in 1..Len(c) |-> c[f[i]]] :
     f \in {g \in [1..Len(c) -> 1..Len(c)] :
              /\ \A a, b \in 1..Len(c) : a # b => g[a] # g[b]
              /\ Ascending([i \in 1..Len(c) |-> c[g[i]]])}}

\* candidates: the first min(k, size) pool entries with id >= 0, with the
\* distance the companion FP32 quantizer computes (exact[id]).
RECURSIVE Candidates(_, _, _, _)
Candidates(p, exact, m, i) ==
  IF i >= m THEN <<>>
  ELSE (IF PoolId(p, i) >= 0
        THEN <<[id |-> PoolId(p, i), dist |-> exact[PoolId(p, i)]]>>
        ELSE <<>>) \o Candidates(p, exact, m, i + 1)

\* SQ8Quantizer::reorder with reorder_quantizer_ set: the set of outputs.
SQ8ReorderExact(p, exact, k) ==
  {[i \in 1..k |-> IF i <= Len(c) THEN c[i].id ELSE -1] :
     c \in SortedArrangements(Candidates(p, exact, Min(k, PoolSize(p)), 0))}

\* SQ8Quantizer::reorder without a companion.
SQ8ReorderCopy(p, k) ==
  [i \in 1..k |-> IF i - 1 < PoolSize(p) THEN PoolId(p, i - 1) ELSE -1]

\* What pool.id(i) reads from a slot no insert has written.
UnwrittenIds(p) == {-1, 0, p.nb}

\* FP32Quantizer::reorder: dst[i] = pool.id(i) for every i < k.
FP32Reorder(p, k) ==
  {[i \in 1..k |-> IF i - 1 < PoolSize(p) THEN PoolId(p, i - 1) ELSE u[i]] :
     u \in [1..k -> UnwrittenIds(p)]}

(***************************************************************************)
(* Searcher<FP32Quantizer>.  Vectors have one dimension; data[i + 1] is    *)
(* the vector of node i and the distance is the squared difference.  The   *)
(* FP32 code of a vector is the vector (encode copies the floats), and     *)
(* encode_query stores the query in the quantizer's one query_ buffer,     *)
(* which compute_query_distance reads: qv below is what query_ holds when  *)
(* the distance is computed.                                               *)
(***************************************************************************)
L2Sqr(a, b) == (a - b) * (a - b)
ComputeQueryDistance(data, qv, v) == L2Sqr(qv, data[v + 1])

\* a pass that looks at slot i only
ScanListFirst(data, qv, list, i, best) ==
  IF i > Len(list) \/ list[i] = EMPTY_ID THEN best
  ELSE IF ComputeQueryDistance(data, qv, list[i]) < best.cur
       THEN [u |-> list[i], cur |-> ComputeQueryDistance(data, qv, list[i])]
       ELSE best

\* One pass of HnswInitializer::initialize over list: the closest of u and
\* the listed nodes before the first -1, as [u, cur].
RECURSIVE ScanList(_, _, _, _, _)
ScanList(data, qv, list, i, best) ==
  IF i > Len(list) \/ list[i] = EMPTY_ID THEN best
  ELSE IF ComputeQueryDistance(data, qv, list[i]) < best.cur
       THEN ScanList(data, qv, list, i + 1,
                     [u |-> list[i], cur |-> ComputeQueryDistance(data, qv, list[i])])
       ELSE ScanList(data, qv, list, i + 1, best)

LevelList(h, level, u) == SubSeq(h.lists[u + 1], (level - 1) * h.K + 1, level * h.K)

(* The greedy descent from best.u at `level` down to level 1.  steps     *)
(* records every pass of the while loop: its level, the node u whose list  *)
(* it scanned and the node it ended on.                                    *)
RECURSIVE Descend(_, _, _, _, _)
Descend(h, data, qv, level, best) ==
  IF level <= 0 THEN best
  ELSE IF ScanList(data, qv, LevelList(h, level, best.u), 1, best).u # best.u
       THEN Descend(h, data, qv, level,
                    [u |-> ScanList(data, qv, LevelList(h, level, best.u), 1, best).u,
                     cur |-> ScanList(data, qv, LevelList(h, level, best.u), 1, best).cur,
                     steps |-> Append(best.steps,
                        [level |-> level, u |-> best.u,
                         next |-> ScanList(data, qv, LevelList(h, level, best.u), 1, best).u])])
       ELSE Descend(h, data, qv, level - 1,
                    [best EXCEPT !.steps = Append(@, [level |-> level, u |-> best.u,
                                                      next |-> best.u])])

InsertVisited(pool_, e) == VisSet(PoolInsert(pool_, e.u, e.cur), e.u)

\* the state of u and cur_dist before the level loop
DescendStart(h, data, qv) ==
  [u |-> h.ep, cur |-> ComputeQueryDistance(data, qv, h.ep), steps |-> <<>>]

\* HnswInitializer::initialize
InitializerInitialize(h, data, qv, pool_) ==
  InsertVisited(pool_, Descend(h, data, qv, h.levels[h.ep + 1], DescendStart(h, data, qv)))

RECURSIVE InsertEntryPoints(_, _, _, _, _)
InsertEntryPoints(eps, data, qv, pool_, i) ==
  IF i > Len(eps) THEN pool_
  ELSE InsertEntryPoints(eps, data, qv,
         PoolInsert(pool_, eps[i], ComputeQueryDistance(data, qv, eps[i])), i + 1)

\* DenseGraph::initialize_search
InitializeSearch(g, data, qv, pool_) ==
  IF g.initializer.present THEN InitializerInitialize(g.initializer, data, qv, pool_)
  ELSE InsertEntryPoints(g.entry_points, data, qv, pool_, 1)

\* The neighbor loop of SearchImpl for the popped node u, from slot i on.
RECURSIVE ExpandRow(_, _, _, _, _, _)
ExpandRow(g, data, qv, pool_, u, i) ==
  IF i >= g.max_degree \/ At(g, u, i) = EMPTY_ID THEN pool_
  ELSE IF At(g, u, i) \in pool_.vis THEN ExpandRow(g, data, qv, pool_, u, i + 1)
  ELSE ExpandRow(g, data, qv,
         PoolInsert(VisSet(pool_, At(g, u, i)), At(g, u, i),
                    ComputeQueryDistance(data, qv, At(g, u, i))),
         u, i + 1)

\* One iteration of the while loop of SearchImpl.
ExpandNode(g, data, qv, pool_) ==
  ExpandRow(g, data, qv, PoolPop(pool_), PoolId(pool_, pool_.cur), 0)

RECURSIVE SearchImpl(_, _, _, _)
SearchImpl(g, data, qv, pool_) ==
  IF HasNext(pool_) THEN SearchImpl(g, data, qv, ExpandNode(g, data, qv, pool_))
  ELSE pool_

\* Searcher::Search run from its first statement to its last with nothing
\* in between: the outputs it may write.
SearchAlone(g, data, nb, ef, q, k) ==
  FP32Reorder(SearchImpl(g, data, q,
                InitializeSearch(g, data, q, NewPool(nb, Max(k, ef)))), k)

(***************************************************************************)
(* Properties of the graph object.                                         *)
(***************************************************************************)
Nodes(g) == 0..(g.num_nodes - 1)
Slots(g) == 0..(g.max_degree - 1)
InRange(g, v) == v >= 0 /\ v < g.num_nodes
NonSentinels(g, i) == {j \in Slots(g) : At(g, i, j) # EMPTY_ID}

\* The arrays have the sizes num_nodes and max_degree name (a load that
\* stopped half way leaves them otherwise).
Allocated(g) ==
  /\ Len(g.degrees) = g.num_nodes
  /\ g.max_degree <= Len(g.data)
  /\ Len(g.data) = g.num_nodes * g.max_degree

\* A graph made through initialize and the mutators, as opposed to one
\* the builder extracted or load() read.
HandBuilt == op.name = "build" /\ ~graph.initializer.present

(* C3: save, load into a fresh Graph, save again gives the same file: once  *)
(* load has run on the file save wrote, load has succeeded and saving the   *)
(* loaded Graph gives that file.                                            *)
C3_SaveLoadSave ==
  op.name = "load" => (op.st = "ok" /\ Save(graph) = disk)

(* C4: in every hand-built graph each row has its non-sentinel ids before   *)
(* its sentinels, and degree(i) is the number of non-sentinel entries.      *)
C4_RowLayout ==
  (HandBuilt /\ Allocated(graph)) =>
    \A i \in Nodes(graph) :
      /\ \A j \in Slots(graph) : \A k \in Slots(graph) :
           (j < k /\ At(graph, i, k) # EMPTY_ID) => At(graph, i, j) # EMPTY_ID
      /\ Degree(graph, i) = Cardinality(NonSentinels(graph, i))

(* C5: every id stored in the edge matrix, in the initializer's lists and   *)
(* ep, and in entry_points is in [0, N); -1 fills unused slots.             *)
C5_IdsInRange ==
  op.st = "ok" =>
    /\ \A c \in 1..Len(graph.data) :
         graph.data[c] = EMPTY_ID \/ InRange(graph, graph.data[c])
    /\ \A e \in 1..Len(graph.entry_points) : InRange(graph, graph.entry_points[e])
    /\ graph.initializer.present =>
         /\ InRange(graph, graph.initializer.ep)
         /\ \A i \in 1..Len(graph.initializer.lists) :
              \A c \in 1..Len(graph.initializer.lists[i]) :
                 \/ graph.initializer.lists[i][c] = EMPTY_ID
                 \/ InRange(graph, graph.initializer.lists[i][c])

(* C9: add_edge(u, v) applied twice gives the state it gives applied once,  *)
(* in every graph state and for all in-range u, v; and while add_edge is    *)
(* the only mutator used since initialize, no row holds an id twice.        *)
C9_AddEdgeIdempotent ==
  /\ Allocated(graph) =>
       \A u \in Nodes(graph), v \in Nodes(graph) :
          AddEdge(AddEdge(graph, u, v), u, v) = AddEdge(graph, u, v)
  /\ op.addOnly =>
       \A i \in Nodes(graph) : \A j \in Slots(graph) : \A k \in Slots(graph) :
          (j # k /\ At(graph, i, j) # EMPTY_ID) => At(graph, i, j) # At(graph, i, k)

\* add_edge has filled a row, and adding one of its edges again changes nothing.
C9_Witness ==
  /\ op.addOnly /\ op.name = "build"
  /\ graph.total_edges >= 2
  /\ \E u \in Nodes(graph), v \in Nodes(graph) :
       /\ HasEdge(graph, u, v)
       /\ Degree(graph, u) >= 2
       /\ AddEdge(graph, u, v) = graph

(***************************************************************************)
(* SpecPool: one pool driven through insert and pop with arbitrary ids and *)
(* distances, then handed to reorder, which ends the pool's life.  The     *)
(* distances inserted are those of the quantized codes, any of Dists;      *)
(* exact[id] is the float distance the companion quantizer computes for    *)
(* id and the reorder's query.                                             *)
(***************************************************************************)
MaxCap == 3          \* capacities 1..MaxCap
MaxDist == 2         \* distances 0..MaxDist
MaxK == 2            \* k in 1..MaxK
PoolNb == 2          \* ids 0..PoolNb-1

PoolIds == 0..(PoolNb - 1)
Dists == 0..MaxDist
PoolQueries == 0..(PoolNb - 1)
\* The companion quantizer holds the floats: node id is the vector <<id>>.
ExactDist(q) == [id \in PoolIds |-> (q - id) * (q - id)]
PoolOthersIdle == UNCHANGED <<graph, disk, op, sgraph, quant, ef_, calls, searcher, kernel>>

PoolNewAct ==
  /\ dst # <<>>
  /\ \E c \in 1..MaxCap : pool' = NewPool(PoolNb, c)
  /\ dst' = <<>>
  /\ pop_' = <<>>
  /\ PoolOthersIdle

PoolInsertAct ==
  /\ dst = <<>>
  /\ \E id \in PoolIds, d \in Dists : pool' = PoolInsert(pool, id, d)
  /\ UNCHANGED <<dst, pop_>>
  /\ PoolOthersIdle

PoolPopAct ==
  /\ dst = <<>>
  /\ HasNext(pool)
  /\ pop_' = <<PoolId(pool, pool.cur)>>
  /\ pool' = PoolPop(pool)
  /\ UNCHANGED dst
  /\ PoolOthersIdle

SQ8ReorderAct ==
  /\ dst = <<>>
  /\ \E k \in 1..MaxK, q \in PoolQueries :
       \E out \in SQ8ReorderExact(pool, ExactDist(q), k) :
          dst' = [quantizer |-> "SQ8+FP32", k |-> k, exact |-> ExactDist(q), out |-> out]
  /\ UNCHANGED <<pool, pop_>>
  /\ PoolOthersIdle

SQ8ReorderCopyAct ==
  /\ dst = <<>>
  /\ \E k \in 1..MaxK :
       dst' = [quantizer |-> "SQ8", k |-> k, exact |-> <<>>, out |-> SQ8ReorderCopy(pool, k)]
  /\ UNCHANGED <<pool, pop_>>
  /\ PoolOthersIdle

PoolInit ==
  /\ \E c \in 1..MaxCap : pool = NewPool(PoolNb, c)
  /\ dst = <<>>
  /\ pop_ = <<>>
  /\ graph = EmptyGraph /\ disk = NoFile
  /\ op = [name |-> "new", st |-> "ok", addOnly |-> TRUE]
  /\ sgraph = EmptyGraph /\ quant = <<>> /\ ef_ = 0 /\ calls = <<>> /\ searcher = <<>>
  /\ kernel = <<>>

PoolNext ==
  \/ PoolNewAct
  \/ PoolInsertAct
  \/ PoolPopAct
  \/ SQ8ReorderAct
  \/ SQ8ReorderCopyAct

SpecPool == PoolInit /\ [][PoolNext]_vars

(* C6: the pool's entries are in non-decreasing order of distance and its  *)
(* size is at most its capacity, after any inserts and pops.               *)
C6_PoolSorted ==
  /\ \A i \in 1..Len(pool.data) : \A j \in 1..Len(pool.data) :
       i < j => pool.data[i].dist <= pool.data[j].dist
  /\ Len(pool.data) <= pool.capacity

\* A full pool that has been popped from and holds different distances.
C6_Witness ==
  /\ pool.capacity >= 2
  /\ Len(pool.data) = pool.capacity
  /\ pop_ # <<>>
  /\ pool.data[1].dist < pool.data[Len(pool.data)].dist

\* distances in ascending order
RECURSIVE SortNat(_)
SortNat(q) ==
  IF q = <<>> THEN <<>>
  ELSE LET m == CHOOSE x \in Range(q) : \A y \in Range(q) : x <= y
           i == CHOOSE j \in 1..Len(q) : q[j] = m
       IN <<m>> \o SortNat(SubSeq(q, 1, i - 1) \o SubSeq(q, i + 1, Len(q)))

(* C8: with a companion FP32 quantizer, reorder writes the k pool ids of   *)
(* smallest float distance over the whole pool, in ascending order of that *)
(* distance, and -1 at every position beyond the number of pool entries.   *)
C8_ReorderWholePool ==
  (dst # <<>> /\ dst.quantizer = "SQ8+FP32") =>
    LET m == Min(dst.k, PoolSize(pool))
        best == SortNat([i \in 1..PoolSize(pool) |-> dst.exact[PoolId(pool, i - 1)]])
    IN /\ \A i \in 1..m : dst.out[i] \in PoolIds /\ dst.exact[dst.out[i]] = best[i]
       /\ \E f \in [1..m -> 1..PoolSize(pool)] :
            /\ \A a, b \in 1..m : a # b => f[a] # f[b]
            /\ \A a \in 1..m : PoolId(pool, f[a] - 1) = dst.out[a]
       /\ \A i \in (m + 1)..dst.k : dst.out[i] = -1

(***************************************************************************)
(* SpecSearch: one Searcher<FP32Quantizer> over a graph handed to its      *)
(* constructor.  SetData trains the quantizer; Search calls then run, one  *)
(* after another or MaxCalls at a time (batch_search runs them under an    *)
(* OpenMP parallel for).  A call is [q, k, pc, pool, out, solo]: pc is the *)
(* statement of Search it is at, solo tells that no other call was in      *)
(* flight between its first statement and its last.                        *)
(***************************************************************************)
MaxCoord == 2        \* queries 0..MaxCoord
MaxSearchK == 2      \* Search is called with k in 0..MaxSearchK
MaxCalls == 2        \* Search calls per Searcher
MaxEf == 1           \* SetEf is called with ef in 0..MaxEf
DefaultEf == 32

Queries == 0..MaxCoord
SearchData(n) == [i \in 1..n |-> i - 1]

\* Graphs written as the test fixture writes them: Graph(n, r), the rows
\* through at(i, j), then set_entry_points.
FixtureGraph(n, r, rows, eps) ==
  [Initialize(EmptyGraph, n, r) EXCEPT
     !.data = Flatten([i \in 1..n |->
                 [j \in 1..r |-> IF j <= Len(rows[i]) THEN rows[i][j] ELSE EMPTY_ID]]),
     !.entry_points = eps]

FixtureGraphs(n, r) ==
  {FixtureGraph(n, r, rows, eps) :
     rows \in {f \in [1..n -> InjSeqs(0..(n - 1), r)] :
                 \A i \in 1..n : (i - 1) \notin Range(f[i])},
     eps \in InjSeqs(0..(n - 1), n) \ {<<>>}}

\* What build, then extract_graph, hands to the Searcher for n points.
BuiltGraphs(n) == {ExtractGraph(h, n, BuilderM) : h \in HnswSnapshots(n)}

kAlign == 16
kOptimizePoints == 1000

\* The dimensions a quantizer is configured with and SetData is called with:
\* one that fills one aligned block, one that needs a second.
Dims == {1, kAlign + 1}

\* FP32Quantizer(distanceType, dim): d = dim, codes and query_ are null.
Untrained ==
  [kind |-> "FP32", trained |-> FALSE, nb |-> 0, data |-> <<>>, query_ |-> <<>>, d |-> 1]

\* The members of a Searcher(graph, quantizer) other than graph_, quantizer_, ef_.
NewSearcher ==
  [nb_ |-> 0, d_ |-> 0, po_ |-> 1, pl_ |-> 1,
   sample_points_num_ |-> 0, optimize_queries_ |-> <<>>]

\* FP32Quantizer::train(data, n, dim), past its dimension check.
Train(qz, n) ==
  [qz EXCEPT !.trained = TRUE, !.nb = n, !.data = SearchData(n), !.query_ = <<0>>]

\* The ids GenRandom can leave in sample_points: size ids of [0, N).
SamplePoints(size, N) == [1..size -> 0..(N - 1)]

(* Searcher::SetData(data, n, dim): nb_ and d_ are assigned first, then    *)
(* train runs and throws on a dimension other than the configured one,     *)
(* then the optimization sample is copied out of data.                     *)
SetData(s, qz, n, dim, sample) ==
  IF dim # qz.d
  THEN [st |-> "Dimension mismatch", quant |-> qz,
        searcher |-> [s EXCEPT !.nb_ = n, !.d_ = dim]]
  ELSE [st |-> "ok", quant |-> Train(qz, n),
        searcher |-> [s EXCEPT !.nb_ = n, !.d_ = dim,
                        !.sample_points_num_ = Min(kOptimizePoints, n - 1),
                        !.optimize_queries_ =
                            [i \in 1..Min(kOptimizePoints, n - 1) |->
                                SearchData(n)[sample[i] + 1]]]]

InFlight(c) == c.pc \in {"init", "loop"}
SearchOthersIdle == UNCHANGED <<graph, disk, pool, dst, pop_, kernel>>

SetDataAct ==
  /\ ~quant.trained
  /\ calls = <<>>
  /\ \E dim \in Dims :
       \E sample \in SamplePoints(Min(kOptimizePoints, sgraph.num_nodes - 1),
                                  sgraph.num_nodes) :
          /\ quant' = SetData(searcher, quant, sgraph.num_nodes, dim, sample).quant
          /\ searcher' = SetData(searcher, quant, sgraph.num_nodes, dim, sample).searcher
          /\ op' = [name |-> "SetData",
                    st |-> SetData(searcher, quant, sgraph.num_nodes, dim, sample).st]
  /\ UNCHANGED <<sgraph, ef_, calls>>
  /\ SearchOthersIdle

SetEfAct ==
  /\ calls = <<>>
  /\ \E ef \in 0..MaxEf : ef_' = ef
  /\ UNCHANGED <<sgraph, quant, calls, op, searcher>>
  /\ SearchOthersIdle

(* The first statement of Search, encode_query(q).  On an untrained        *)
(* quantizer query_ is a null pointer and the copy into it is undefined:   *)
(* the call dies there ("crashed") or runs on over unallocated codes and   *)
(* returns whatever it found ("garbage").                                  *)
SearchBeginAct ==
  /\ Len(calls) < MaxCalls
  /\ \E q \in Queries, k \in 0..MaxSearchK :
       IF quant.trained
       THEN /\ calls' = Append([i \in 1..Len(calls) |->
                                  IF InFlight(calls[i]) THEN [calls[i] EXCEPT !.solo = FALSE]
                                  ELSE calls[i]],
                               [q |-> q, k |-> k, pc |-> "init", pool |-> <<>>, out |-> <<>>,
                                solo |-> \A i \in 1..Len(calls) : ~InFlight(calls[i])])
            /\ quant' = [quant EXCEPT !.query_ = <<q>>]
       ELSE /\ \E end \in {"crashed", "garbage"} :
                 calls' = Append(calls, [q |-> q, k |-> k, pc |-> end, pool |-> <<>>,
                                         out |-> <<>>, solo |-> TRUE])
            /\ UNCHANGED quant
  /\ UNCHANGED <<sgraph, ef_, op, searcher>>
  /\ SearchOthersIdle

\* LinearPool pool(nb_, max(k, ef_), k); graph_.initialize_search(pool, quantizer_)
SearchInitAct ==
  /\ \E c \in 1..Len(calls) :
       /\ calls[c].pc = "init"
       /\ calls' = [calls EXCEPT ![c].pc = "loop",
                      ![c].pool = InitializeSearch(sgraph, quant.data, quant.query_[1],
                                     NewPool(searcher.nb_, Max(calls[c].k, ef_)))]
  /\ UNCHANGED <<sgraph, quant, ef_, op, searcher>>
  /\ SearchOthersIdle

\* one iteration of SearchImpl's loop
SearchExpandAct ==
  /\ \E c \in 1..Len(calls) :
       /\ calls[c].pc = "loop"
       /\ HasNext(calls[c].pool)
       /\ calls' = [calls EXCEPT
                      ![c].pool = ExpandNode(sgraph, quant.data, quant.query_[1], calls[c].pool)]
  /\ UNCHANGED <<sgraph, quant, ef_, op, searcher>>
  /\ SearchOthersIdle

\* quantizer_->reorder(pool, q, dst, k) once the loop has ended
SearchReorderAct ==
  /\ \E c \in 1..Len(calls) :
       /\ calls[c].pc = "loop"
       /\ ~HasNext(calls[c].pool)
       /\ \E out \in FP32Reorder(calls[c].pool, calls[c].k) :
            calls' = [calls EXCEPT ![c].pc = "done", ![c].out = out]
  /\ UNCHANGED <<sgraph, quant, ef_, op, searcher>>
  /\ SearchOthersIdle

SearchInit ==
  /\ \E n \in 1..MaxNodes :
       sgraph \in (IF n = MaxNodes THEN FixtureGraphs(n, MaxDegree) ELSE {}) \cup BuiltGraphs(n)
  /\ quant = Untrained
  /\ searcher = NewSearcher
  /\ ef_ = DefaultEf
  /\ calls = <<>>
  /\ graph = EmptyGraph /\ disk = NoFile
  /\ op = [name |-> "new", st |-> "ok", addOnly |-> TRUE]
  /\ pool = <<>> /\ dst = <<>> /\ pop_ = <<>> /\ kernel = <<>>

SearchNext ==
  \/ SetDataAct
  \/ SetEfAct
  \/ SearchBeginAct
  \/ SearchInitAct
  \/ SearchExpandAct
  \/ SearchReorderAct

SpecSearch == SearchInit /\ [][SearchNext]_vars

Done(c) == c.pc = "done"
ValidId(v) == v >= 0 /\ v < sgraph.num_nodes
QueryDist(c, v) == L2Sqr(c.q, quant.data[v + 1])

(* C1: every Search call, whatever runs beside it, writes the ids it would *)
(* write if it ran alone with the same query.                              *)
C1_ConcurrentIndependent ==
  \A c \in 1..Len(calls) :
     Done(calls[c]) =>
       calls[c].out \in SearchAlone(sgraph, quant.data, searcher.nb_, ef_, calls[c].q, calls[c].k)

(* C2: after SetData, Search(q, k, out) leaves k pairwise distinct ids of  *)
(* [0, N) in out.  Stated for the calls that ran with no other call beside *)
(* them and asked for no more ids than the graph has nodes.                *)
C2_DistinctInRange ==
  \A c \in 1..Len(calls) :
     (Done(calls[c]) /\ calls[c].solo /\ calls[c].k <= sgraph.num_nodes) =>
       /\ \A i \in 1..calls[c].k : ValidId(calls[c].out[i])
       /\ \A i, j \in 1..calls[c].k : i # j => calls[c].out[i] # calls[c].out[j]

(* C7: the ids an FP32 Search writes are in non-decreasing order of their  *)
(* distance to the query.  Stated for the calls that ran with no other     *)
(* call beside them and asked for no more ids than the graph has nodes.    *)
C7_OrderedByDistance ==
  \A c \in 1..Len(calls) :
     (Done(calls[c]) /\ calls[c].solo /\ calls[c].k <= sgraph.num_nodes) =>
       \A i \in 1..(calls[c].k - 1) :
          /\ ValidId(calls[c].out[i]) /\ ValidId(calls[c].out[i + 1])
          /\ QueryDist(calls[c], calls[c].out[i]) <= QueryDist(calls[c], calls[c].out[i + 1])

(* C10: a Search on a Searcher that SetData was never called on fails with *)
(* NotTrained; nothing is encoded, traversed or written.                   *)
C10_NotTrained ==
  ~quant.trained =>
     /\ quant.query_ = <<>>
     /\ \A c \in 1..Len(calls) :
          calls[c].pc = "NotTrained" /\ calls[c].pool = <<>> /\ calls[c].out = <<>>

(* C11: a SetData call that stops on a dimension other than the configured *)
(* one has no side effects: nb_, d_, the optimization sample and the       *)
(* quantizer's code block are what they were before the call.              *)
C11_SetDataNoSideEffects ==
  [][(op' # op /\ op'.name = "SetData" /\ op'.st = "Dimension mismatch")
        => (searcher' = searcher /\ quant' = quant)]_vars

(* C12: a Search call with k < 1 fails with InvalidArgument and performs no *)
(* search: no pool is built and nothing is written.  (The pool's capacity  *)
(* is max(k, ef_), so k is never above it.)                                *)
C12_KValidated ==
  \A c \in 1..Len(calls) :
     (quant.trained /\ calls[c].k < 1) =>
        calls[c].pc = "InvalidArgument" /\ calls[c].pool = <<>> /\ calls[c].out = <<>>

(* C15: ef_ is positive in every reachable state: it is 32 until SetEf is  *)
(* called, and a SetEf(ef) with ef <= 0 is rejected and leaves it alone.   *)
C15_EfPositive == ef_ > 0

\* The position of the first sentinel of row i (max_degree when there is none).
FirstSentinel(g, i) ==
  IF \E j \in Slots(g) : At(g, i, j) = EMPTY_ID
  THEN CHOOSE j \in Slots(g) :
         At(g, i, j) = EMPTY_ID /\ \A k \in 0..(j - 1) : At(g, i, k) # EMPTY_ID
  ELSE g.max_degree

(* C13: a load that returns successfully leaves a graph in which every     *)
(* edge id is below num_nodes and every stored degree is the position of   *)
(* its row's first sentinel; files that are otherwise are rejected.        *)
C13_LoadVerifies ==
  (op.name = "load" /\ op.st = "ok") =>
     /\ Allocated(graph)
     /\ \A c \in 1..Len(graph.data) : graph.data[c] < graph.num_nodes
     /\ \A i \in Nodes(graph) : graph.degrees[i + 1] = FirstSentinel(graph, i)

(* C14: once save has returned, either the whole graph is in the file, or *)
(* save reported an IO error and no file is left at the path.              *)
C14_NoPartialFile ==
  op.name = "save" =>
     \/ disk = Save(graph)
     \/ op.st = "IOError" /\ disk = NoFile

(***************************************************************************)
(* SpecSearcher: one Searcher driven by one caller.  SetData, SetEf,       *)
(* Optimize and Search run one after the other, each from its first        *)
(* statement to its last; Search runs with the prefetch parameters po_ and *)
(* pl_ that Optimize left.                                                 *)
(***************************************************************************)
kTryPos == 10
kTryPls == 5

UpperDiv(x, y) == (x + y - 1) \div y
DoAlign(x, align) == ((x + align - 1) \div align) * align

\* FP32Quantizer::code_size(): d_align * sizeof(float)
CodeSize(qz) == DoAlign(qz.d, kAlign) * 4

(* A run of SearchImpl: the pool, the ids compute_query_distance was called *)
(* on, in order, and the prefetches issued, in order.                       *)
NewRun(pool_) == [pool |-> pool_, trace |-> <<>>, hints |-> <<>>]

\* graph_.prefetch_neighbors(u, lines) and quant->prefetch_data(to, lines):
\* mem_prefetch issues cache hints and writes nothing.
PrefetchNeighbors(run, u, lines) ==
  [run EXCEPT !.hints = Append(@, [what |-> "row", id |-> u, lines |-> lines])]

\* A variant of prefetch_data that marks the node it touches as visited.
PrefetchDataVisits(run, to, lines) ==
  [run EXCEPT !.hints = Append(@, [what |-> "code", id |-> to, lines |-> lines]),
              !.pool = VisSet(@, to)]

PrefetchData(run, to, lines) ==
  [run EXCEPT !.hints = Append(@, [what |-> "code", id |-> to, lines |-> lines])]

\* for (i = 0; i < po_; ++i) quant->prefetch_data(graph_.at(u, i), pl_)
RECURSIVE PrefetchFirst(_, _, _, _, _, _)
PrefetchFirst(g, run, u, i, po, pl) ==
  IF i >= po THEN run
  ELSE PrefetchFirst(g, PrefetchData(run, At(g, u, i), pl), u, i + 1, po, pl)

\* the prefetch of the neighbor po_ slots ahead, inside the neighbor loop
PrefetchAhead(g, run, u, i, po, pl) ==
  IF i + po < g.max_degree /\ At(g, u, i + po) # EMPTY_ID
  THEN PrefetchData(run, At(g, u, i + po), pl)
  ELSE run

\* the rest of the loop body for neighbor v
Visit(data, qv, run, v) ==
  IF v \in run.pool.vis THEN run
  ELSE [run EXCEPT !.pool = PoolInsert(VisSet(@, v), v, ComputeQueryDistance(data, qv, v)),
                   !.trace = Append(@, v)]

RECURSIVE ExpandRowPrefetch(_, _, _, _, _, _, _, _)
ExpandRowPrefetch(g, data, qv, run, u, i, po, pl) ==
  IF i >= g.max_degree \/ At(g, u, i) = EMPTY_ID THEN run
  ELSE ExpandRowPrefetch(g, data, qv,
         Visit(data, qv, PrefetchAhead(g, run, u, i, po, pl), At(g, u, i)),
         u, i + 1, po, pl)

\* One iteration of the while loop of SearchImpl, prefetches included.
ExpandNodePrefetch(g, data, qv, run, u, po, pl) ==
  ExpandRowPrefetch(g, data, qv,
    PrefetchFirst(g, PrefetchNeighbors([run EXCEPT !.pool = PoolPop(@)], u, g.max_degree \div 16),
                  u, 0, po, pl),
    u, 0, po, pl)

RECURSIVE SearchImplPrefetch(_, _, _, _, _, _)
SearchImplPrefetch(g, data, qv, run, po, pl) ==
  IF HasNext(run.pool)
  THEN SearchImplPrefetch(g, data, qv,
         ExpandNodePrefetch(g, data, qv, run, PoolId(run.pool, run.pool.cur), po, pl), po, pl)
  ELSE run

\* Search up to its reorder call, under the prefetch parameters (po, pl).
SearchRun(g, data, nb, ef, q, k, po, pl) ==
  SearchImplPrefetch(g, data, q,
    NewRun(InitializeSearch(g, data, q, NewPool(nb, Max(k, ef)))), po, pl)

MaxEla == 2          \* a timed sweep takes 1..MaxEla ticks
MaxRuns == 1         \* Search calls per Searcher in SpecSearcher

Times == 1..MaxEla

\* try_pos x try_pls in the order the two nested loops of Optimize visit them
SweepPairs(R, cs) ==
  [n \in 1..(Min(kTryPos, R) * Min(kTryPls, UpperDiv(cs, 64))) |->
     <<((n - 1) \div Min(kTryPls, UpperDiv(cs, 64))) + 1,
       ((n - 1) % Min(kTryPls, UpperDiv(cs, 64))) + 1>>]

\* min_ela starts at the largest double, best_po and best_pl at 0; a pair
\* replaces the best so far when its time is strictly smaller.
RECURSIVE SweepBest(_, _, _, _)
SweepBest(pairs, ela, i, best) ==
  IF i > Len(pairs) THEN best
  ELSE IF ela[i] < best.min_ela
       THEN SweepBest(pairs, ela, i + 1,
                      [po |-> pairs[i][1], pl |-> pairs[i][2], min_ela |-> ela[i]])
       ELSE SweepBest(pairs, ela, i + 1, best)

\* A variant of Optimize that leaves the baseline parameters in effect.
OptimizeKeepsBaseline(s, pairs, ela) == [s EXCEPT !.po_ = 1, !.pl_ = 1]

(* Searcher::Optimize, given the time ela[i] measured for the i-th swept   *)
(* pair: po_ and pl_ go through every pair, then to (1, 1) for the         *)
(* baseline, and are left at the best pair.                                *)
Optimize(s, pairs, ela) ==
  [s EXCEPT !.po_ = SweepBest(pairs, ela, 1, [po |-> 0, pl |-> 0, min_ela |-> MaxEla + 1]).po,
            !.pl_ = SweepBest(pairs, ela, 1, [po |-> 0, pl |-> 0, min_ela |-> MaxEla + 1]).pl]

(* The Search calls of the sweeps write dummy_dst, which Optimize discards, *)
(* and the quantizer's query_, which is left holding a sample query.        *)
OptimizeAct ==
  /\ calls = <<>>
  /\ \E ela \in [1..Len(SweepPairs(sgraph.max_degree, CodeSize(quant))) -> Times],
        baseline \in Times :
       /\ searcher' = Optimize(searcher, SweepPairs(sgraph.max_degree, CodeSize(quant)), ela)
       /\ op' = [name |-> "Optimize", ela |-> ela, baseline |-> baseline]
  /\ IF searcher.sample_points_num_ > 0
     THEN \E x \in Range(searcher.optimize_queries_) : quant' = [quant EXCEPT !.query_ = <<x>>]
     ELSE UNCHANGED quant
  /\ UNCHANGED <<sgraph, ef_, calls>>
  /\ SearchOthersIdle

\* Search(q, k, dst) from its first statement to its last.
SearchAct ==
  /\ Len(calls) < MaxRuns
  /\ \E q \in Queries, k \in 0..MaxSearchK :
       IF quant.trained
       THEN /\ \E out \in FP32Reorder(SearchRun(sgraph, quant.data, searcher.nb_, ef_, q, k,
                                                searcher.po_, searcher.pl_).pool, k) :
                 calls' = Append(calls,
                            [q |-> q, k |-> k, pc |-> "done", out |-> out,
                             po |-> searcher.po_, pl |-> searcher.pl_,
                             run |-> SearchRun(sgraph, quant.data, searcher.nb_, ef_, q, k,
                                               searcher.po_, searcher.pl_)])
            /\ quant' = [quant EXCEPT !.query_ = <<q>>]
       ELSE /\ \E end \in {"crashed", "garbage"} :
                 calls' = Append(calls, [q |-> q, k |-> k, pc |-> end, out |-> <<>>,
                                         po |-> searcher.po_, pl |-> searcher.pl_,
                                         run |-> NewRun(<<>>)])
            /\ UNCHANGED quant
  /\ op' = [name |-> "Search", st |-> "returned"]
  /\ UNCHANGED <<sgraph, ef_, searcher>>
  /\ SearchOthersIdle

SearcherInit ==
  /\ \E n \in 1..MaxNodes :
       sgraph \in (IF n = MaxNodes
                   THEN UNION {FixtureGraphs(n, r) : r \in 1..MaxDegree} ELSE {})
                  \cup BuiltGraphs(n)
  /\ quant \in {[Untrained EXCEPT !.d = d] : d \in Dims}
  /\ searcher = NewSearcher
  /\ ef_ = DefaultEf
  /\ calls = <<>>
  /\ graph = EmptyGraph /\ disk = NoFile
  /\ op = [name |-> "new", st |-> "ok", addOnly |-> TRUE]
  /\ pool = <<>> /\ dst = <<>> /\ pop_ = <<>> /\ kernel = <<>>

SearcherNext ==
  \/ SetDataAct
  \/ SetEfAct
  \/ OptimizeAct
  \/ SearchAct

SpecSearcher == SearcherInit /\ [][SearcherNext]_vars

\* The prefetch settings a Searcher over graph g and quantizer qz can be in.
PrefetchSettings(g, qz) ==
  (1..Min(kTryPos, g.max_degree)) \X (1..Min(kTryPls, UpperDiv(CodeSize(qz), 64)))

(* C16: for the graph, quantizer state, ef and query of a finished Search, *)
(* every prefetch setting (po, pl) gives the same sequence of distance     *)
(* computations, the same pool and visited set, and the ids the call wrote *)
(* are ids reorder writes from that pool under every setting.              *)
C16_PrefetchIndependent ==
  \A c \in 1..Len(calls) :
     calls[c].pc = "done" =>
        \A s \in PrefetchSettings(sgraph, quant) :
           /\ SearchRun(sgraph, quant.data, searcher.nb_, ef_, calls[c].q, calls[c].k,
                        s[1], s[2]).trace = calls[c].run.trace
           /\ SearchRun(sgraph, quant.data, searcher.nb_, ef_, calls[c].q, calls[c].k,
                        s[1], s[2]).pool = calls[c].run.pool
           /\ calls[c].out \in
                FP32Reorder(SearchRun(sgraph, quant.data, searcher.nb_, ef_, calls[c].q,
                                      calls[c].k, s[1], s[2]).pool, calls[c].k)

\* A Search has run under po = 2 and pl = 2, issued prefetches, computed
\* distances in its loop and written ids.
C16_Witness ==
  \E c \in 1..Len(calls) :
     /\ calls[c].pc = "done" /\ calls[c].po = 2 /\ calls[c].pl = 2
     /\ \E h \in 1..Len(calls[c].run.hints) :
          calls[c].run.hints[h].what = "code" /\ calls[c].run.hints[h].id # EMPTY_ID
     /\ Len(calls[c].run.trace) > 0
     /\ calls[c].k > 0

(* C17: after Optimize on a graph of max_degree R >= 1, po_ is in          *)
(* [1, min(10, R)], pl_ is in [1, min(5, ceil(code_size / 64))], and the   *)
(* time measured for (po_, pl_) is the least of the times of all swept     *)
(* pairs, whatever the baseline run at (1, 1) measured.                    *)
C17_OptimizePicksMinimum ==
  (op.name = "Optimize" /\ sgraph.max_degree >= 1) =>
     /\ searcher.po_ \in 1..Min(10, sgraph.max_degree)
     /\ searcher.pl_ \in 1..Min(5, UpperDiv(CodeSize(quant), 64))
     /\ \E i \in 1..Len(op.ela) :
          /\ SweepPairs(sgraph.max_degree, CodeSize(quant))[i] = <<searcher.po_, searcher.pl_>>
          /\ \A j \in 1..Len(op.ela) : op.ela[i] <= op.ela[j]

\* Optimize has swept four pairs, (2, 2) was strictly the fastest, and the
\* baseline at (1, 1) measured less than the sweep did at (1, 1).
C17_Witness ==
  /\ op.name = "Optimize"
  /\ Len(op.ela) = 4
  /\ searcher.po_ = 2 /\ searcher.pl_ = 2
  /\ \A j \in 1..3 : op.ela[4] < op.ela[j]
  /\ op.baseline < op.ela[1]
  /\ searcher.sample_points_num_ > 0

(* C18: in the LayerInitializer extract_graph hands over, every level is   *)
(* >= 0, and ep is one of its nodes whose level is at least the level of   *)
(* every other node.                                                       *)
C18_EntryPointTopLevel ==
  op.name = "extract" =>
     /\ \A i \in 1..Len(graph.initializer.levels) : graph.initializer.levels[i] >= 0
     /\ graph.initializer.ep \in 0..(Len(graph.initializer.levels) - 1)
     /\ \A i \in 1..Len(graph.initializer.levels) :
          graph.initializer.levels[graph.initializer.ep + 1] >= graph.initializer.levels[i]

(***************************************************************************)
(* SpecCodes: the distances over packed 4-bit codes.  A computation starts *)
(* from two vectors of dim values; SQ4Quantizer::encode packs them, and    *)
(* the L2 kernels of every dispatch level, or the IP distance computer of  *)
(* the SQ4 quantizer, are applied to the codes.  float sums of these small *)
(* integers are exact and are modelled as integers.                        *)
(***************************************************************************)
MaxBlocks == 1       \* codes of up to MaxBlocks 16-byte blocks, and 1 byte more

RECURSIVE SumSeq(_, _)
SumSeq(s, n) == IF n = 0 THEN 0 ELSE s[n] + SumSeq(s, n - 1)

Low(byte) == byte % 16
High(byte) == (byte \div 16) % 16

(* SQ4Quantizer::encode with offset_ = 0 and scale_ = 1: d_align / 2 bytes *)
(* are zeroed, then value j, clamped to [0, 15], is or-ed into the low     *)
(* (even j) or high (odd j) nibble of byte j / 2.                          *)
SQ4Encode(input, d) ==
  [i \in 1..(DoAlign(d, kAlign) \div 2) |->
     (IF 2 * i - 1 <= d THEN Max(0, Min(15, input[2 * i - 1])) ELSE 0)
     + 16 * (IF 2 * i <= d THEN Max(0, Min(15, input[2 * i])) ELSE 0)]

\* L2SqrSQ4_ref: both nibbles of each of the (qty + 1) / 2 bytes
L2SqrSQ4_ref(a, b, qty) ==
  SumSeq([i \in 1..((qty + 1) \div 2) |->
            (Low(a[i]) - Low(b[i])) * (Low(a[i]) - Low(b[i]))
            + (High(a[i]) - High(b[i])) * (High(a[i]) - High(b[i]))],
         (qty + 1) \div 2)

(* detail::L2SqrSQ4_avx2, given the lane count its third argument points   *)
(* to.  Of each whole 16-byte block the fused multiply-add takes the low   *)
(* nibbles of the first 8 bytes (the low 128 bits of the widened low       *)
(* nibbles); the bytes after the last whole block go through the scalar    *)
(* loop.                                                                   *)
L2SqrSQ4_avx2(a, b, qty) ==
  SumSeq([i \in 1..((qty + 1) \div 2) |->
            IF i <= 16 * (((qty + 1) \div 2) \div 16)
            THEN (IF (i - 1) % 16 < 8
                  THEN (Low(a[i]) - Low(b[i])) * (Low(a[i]) - Low(b[i]))
                  ELSE 0)
            ELSE (Low(a[i]) - Low(b[i])) * (Low(a[i]) - Low(b[i]))
                 + (High(a[i]) - High(b[i])) * (High(a[i]) - High(b[i]))],
         (qty + 1) \div 2)

SIMDLevels == {"AVX512", "AVX2", "SSE", "NEON", "NONE"}

\* the kernel initializeSIMDFunctions installs in L2SqrSQ4 at each level
L2SqrSQ4(level, a, b, qty) ==
  IF level \in {"AVX512", "AVX2"} THEN L2SqrSQ4_avx2(a, b, qty)
  ELSE L2SqrSQ4_ref(a, b, qty)

\* IPDistanceComputer<uint8_t, SQ4>::compute: computeGeneric over dim_
\* elements of type uint8_t
IPComputeGeneric(a, b, dim) ==
  [dist |-> 1 - SumSeq([i \in 1..dim |-> a[i] * b[i]], dim), bytes |-> dim]

\* The vectors handed to encode: one value set, the others 0.
CodeValues == {0, 1, 15}
CodeInputs(dim) == {[j \in 1..dim |-> IF j = p THEN x ELSE 0] : p \in 1..dim, x \in CodeValues}
L2Dims == {1, 2, 3, 32 * MaxBlocks, 32 * MaxBlocks + 1}
IPDims == {1, 2, 3}

L2SqrSQ4Act ==
  /\ kernel.fn = "l2sqr_u4" /\ kernel.out = <<>>
  /\ kernel' = [kernel EXCEPT !.out =
                  [level \in SIMDLevels |->
                     L2SqrSQ4(level, SQ4Encode(kernel.a, kernel.dim),
                              SQ4Encode(kernel.b, kernel.dim), kernel.dim)]]
  /\ UNCHANGED <<graph, disk, op, pool, dst, pop_, sgraph, quant, ef_, calls, searcher>>

\* encode_query(a), then compute_query_distance on the code of b, IP metric
SQ4QueryDistanceAct ==
  /\ kernel.fn = "sq4_ip" /\ kernel.out = <<>>
  /\ kernel' = [kernel EXCEPT !.out =
                  IPComputeGeneric(SQ4Encode(kernel.a, kernel.dim),
                                   SQ4Encode(kernel.b, kernel.dim), kernel.dim)]
  /\ UNCHANGED <<graph, disk, op, pool, dst, pop_, sgraph, quant, ef_, calls, searcher>>

\* SQ4Quantizer::decode: lane j of a packed code
Lane(code, j) == IF j % 2 = 0 THEN Low(code[(j \div 2) + 1]) ELSE High(code[(j \div 2) + 1])

(***************************************************************************)
(* Scalar quantizers.  Vectors have integer elements; a scale is kept as  *)
(* the exact fraction <<numerator, denominator>> and a decoded element as *)
(* its value times that denominator, so that no rounding of the model is  *)
(* added to the rounding the code does.                                   *)
(***************************************************************************)
MaxTrainN == 2       \* train is called with 1..MaxTrainN vectors
MaxTrainCells == 4   \* ... of n * dim <= MaxTrainCells elements

\* train: SQ8 takes min and max per dimension and 255 steps, SQ4 takes them
\* over all elements and 15 steps; a zero scale is replaced by 1.
QuantTrain(kind, data, n, d) ==
  LET vals(j) == IF kind = "SQ8" THEN {data[(i - 1) * d + j] : i \in 1..n}
                 ELSE Range(data)
      lo(j) == CHOOSE v \in vals(j) : \A w \in vals(j) : v <= w
      hi(j) == CHOOSE v \in vals(j) : \A w \in vals(j) : v >= w
  IN [kind |-> kind, d |-> d, steps |-> IF kind = "SQ8" THEN 255 ELSE 15,
      offset_ |-> [j \in 1..d |-> lo(j)],
      scale_ |-> [j \in 1..d |-> IF hi(j) = lo(j) \/ kind = "FP32" THEN <<1, 1>>
                                 ELSE <<hi(j) - lo(j),
                                        IF kind = "SQ8" THEN 255 ELSE 15>>]]

\* decode without the offset
QuantDecodeNoOffset(qz, code) ==
  [j \in 1..qz.d |->
     IF qz.kind = "FP32" THEN code[j]
     ELSE (IF qz.kind = "SQ8" THEN code[j] ELSE Lane(code, j - 1)) * qz.scale_[j][1]]

\* encode: (x - offset) / scale clamped to [0, steps], then std::round
\* (halves away from zero); FP32 copies.  The aligned tail is zero.
QuantEncode(qz, x) ==
  LET q(j) == LET sn == qz.scale_[j][1]
                  t == (x[j] - qz.offset_[j]) * qz.scale_[j][2]
              IN IF t <= 0 THEN 0
                 ELSE IF t >= qz.steps * sn THEN qz.steps
                 ELSE (2 * t + sn) \div (2 * sn)
  IN IF qz.kind = "SQ4" THEN SQ4Encode([j \in 1..qz.d |-> q(j)], qz.d)
     ELSE [j \in 1..DoAlign(qz.d, kAlign) |->
             IF j > qz.d THEN 0 ELSE IF qz.kind = "FP32" THEN x[j] ELSE q(j)]

\* decode: code * scale + offset per element (times the scale's denominator)
QuantDecode(qz, code) ==
  [j \in 1..qz.d |->
     IF qz.kind = "FP32" THEN code[j]
     ELSE (IF qz.kind = "SQ8" THEN code[j] ELSE Lane(code, j - 1)) * qz.scale_[j][1]
          + qz.offset_[j] * qz.scale_[j][2]]

\* train(data, n, dim), then encode and decode of base vector i
RoundTripAct ==
  /\ kernel.fn = "roundtrip" /\ kernel.out = <<>>
  /\ LET qz == QuantTrain(kernel.kind, kernel.a, kernel.n, kernel.dim)
         x == SubSeq(kernel.a, kernel.i * kernel.dim + 1, (kernel.i + 1) * kernel.dim)
     IN kernel' = [kernel EXCEPT !.out =
                     [qz |-> qz, x |-> x, code |-> QuantEncode(qz, x),
                      dec |-> QuantDecode(qz, QuantEncode(qz, x))]]
  /\ UNCHANGED <<graph, disk, op, pool, dst, pop_, sgraph, quant, ef_, calls, searcher>>

(***************************************************************************)
(* Configuration objects.  A string is kept as the sequence of its         *)
(* ';'-separated tokens, a token as its key and its value, and the value   *)
(* of an integer field as its decimal digits; a file is the sequence of    *)
(* its lines.  Integer fields are read with std::stoul and hold unsigned   *)
(* values.                                                                 *)
(***************************************************************************)
ConfigKeys(kind) ==
  IF kind = "hnsw"
  THEN <<"M", "ef_construction", "max_elements", "allow_replace_deleted", "random_seed">>
  ELSE IF kind = "search" THEN <<"ef", "num_threads", "use_prefetch", "batch_size">>
  ELSE <<"nbits", "subvector_size", "num_centroids">>

\* operator<< of an unsigned integer
RECURSIVE Decimal(_)
Decimal(n) == IF n < 10 THEN <<n>> ELSE Decimal(n \div 10) \o <<n % 10>>

\* std::stoul of a string of digits
RECURSIVE Stoul(_)
Stoul(ds) ==
  IF Len(ds) = 0 THEN 0 ELSE 10 * Stoul(SubSeq(ds, 1, Len(ds) - 1)) + ds[Len(ds)]

to_string(kind, c) ==
  [i \in 1..Len(ConfigKeys(kind)) |->
     LET key == ConfigKeys(kind)[i]
     IN [key |-> key,
         value |-> IF key \in {"allow_replace_deleted", "use_prefetch"}
                   THEN (IF c[key] THEN "true" ELSE "false")
                   ELSE Decimal(c[key])]]

\* from_string that stores the numbers and skips the flags
from_string_skips_flags(kind, c, str) ==
  [key \in DOMAIN c |->
     LET hits == {i \in 1..Len(str) : str[i].key = key}
         last == CHOOSE i \in hits : \A h \in hits : h <= i
     IN IF hits = {} \/ key \notin Range(ConfigKeys(kind)) THEN c[key]
        ELSE IF key \in {"allow_replace_deleted", "use_prefetch"}
             THEN c[key] ELSE Stoul(str[last].value)]

\* from_string: every token whose key is a field of the kind is stored, in
\* the order of the tokens; the other tokens are skipped
from_string(kind, c, str) ==
  [key \in DOMAIN c |->
     LET hits == {i \in 1..Len(str) : str[i].key = key}
         last == CHOOSE i \in hits : \A h \in hits : h <= i
     IN IF hits = {} \/ key \notin Range(ConfigKeys(kind)) THEN c[key]
        ELSE IF key \in {"allow_replace_deleted", "use_prefetch"}
             THEN str[last].value = "true" ELSE Stoul(str[last].value)]

\* ConfigManager::save_to_file: two comment lines and an empty line, then
\* for every registered configuration its section line, one line per token
\* and an empty line
SaveToFile(configs) ==
  <<[t |-> "#"], [t |-> "#"], [t |-> ""]>>
  \o Flatten([i \in 1..3 |->
       LET name == <<"hnsw", "quantization", "search">>[i]
       IN IF name \notin DOMAIN configs THEN <<>>
          ELSE <<[t |-> "[]", name |-> name]>>
               \o [j \in 1..Len(to_string(name, configs[name])) |->
                     [t |-> "=", token |-> to_string(name, configs[name])[j]]]
               \o <<[t |-> ""]>>])

\* ConfigManager::load_from_file from line i on, in section current_section
RECURSIVE LoadFromFile(_, _, _, _)
LoadFromFile(configs, file, i, current_section) ==
  IF i > Len(file) THEN configs
  ELSE IF file[i].t \in {"", "#"} THEN LoadFromFile(configs, file, i + 1, current_section)
  ELSE IF file[i].t = "[]" THEN LoadFromFile(configs, file, i + 1, file[i].name)
  ELSE IF current_section \in {"hnsw", "search", "quantization"}
       THEN LoadFromFile([configs EXCEPT ![current_section] =
                            from_string(current_section, @, <<file[i].token>>)],
                         file, i + 1, current_section)
       ELSE LoadFromFile(configs, file, i + 1, current_section)

\* c.to_string(), then from_string of it on the object d
ConfigRoundTripAct ==
  /\ kernel.fn = "config" /\ kernel.out = <<>>
  /\ kernel' = [kernel EXCEPT !.out =
                  [str |-> to_string(kernel.kind, kernel.c),
                   back |-> from_string(kernel.kind, kernel.d,
                                       to_string(kernel.kind, kernel.c))]]
  /\ UNCHANGED <<graph, disk, op, pool, dst, pop_, sgraph, quant, ef_, calls, searcher>>

\* save_to_file, reset_to_defaults (the objects d), load_from_file
ConfigFileAct ==
  /\ kernel.fn = "config_file" /\ kernel.out = <<>>
  /\ kernel' = [kernel EXCEPT !.out =
                  [file |-> SaveToFile(kernel.c),
                   loaded |-> LoadFromFile(kernel.d, SaveToFile(kernel.c), 1, "")]]
  /\ UNCHANGED <<graph, disk, op, pool, dst, pop_, sgraph, quant, ef_, calls, searcher>>

(***************************************************************************)
(* The layered descent on its own: an initializer as build leaves it (a    *)
(* layer-l list names other nodes of level l or more, ep has the top       *)
(* level), vectors 0..DescendN-1 on a line, and a fresh pool.              *)
(***************************************************************************)
DescendN == 3        \* nodes of the initializer
DescendK == 2        \* up to DescendK slots per layer
DescendLevels == 2   \* node levels 0..L, L up to DescendLevels
DescendCells == 2    \* ... with K * L <= DescendCells

\* initialize(pool, quant) on a fresh pool
DescendAct ==
  /\ kernel.fn = "descend" /\ kernel.out = <<>>
  /\ kernel' = [kernel EXCEPT !.out =
        [best |-> Descend(kernel.h, SearchData(DescendN), kernel.q,
                          kernel.h.levels[kernel.h.ep + 1],
                          DescendStart(kernel.h, SearchData(DescendN), kernel.q)),
         pool |-> InitializerInitialize(kernel.h, SearchData(DescendN), kernel.q,
                                        NewPool(DescendN, kernel.capacity))]]
  /\ UNCHANGED <<graph, disk, op, pool, dst, pop_, sgraph, quant, ef_, calls, searcher>>

(***************************************************************************)
(* The pool on its own: a sequence of insert calls on a fresh pool.        *)
(***************************************************************************)
MaxInserts == 4      \* insert is called 1..MaxInserts times

\* insert(entries[i].id, entries[i].dist) for i = 1..n, in this order
RECURSIVE InsertAll(_, _, _)
InsertAll(p, entries, n) ==
  IF n = 0 THEN p
  ELSE PoolInsert(InsertAll(p, entries, n - 1), entries[n].id, entries[n].dist)

PoolInsertsAct ==
  /\ kernel.fn = "inserts" /\ kernel.out = <<>>
  /\ kernel' = [kernel EXCEPT !.out =
        [before |-> InsertAll(NewPool(PoolNb, kernel.capacity), kernel.entries,
                              Len(kernel.entries) - 1),
         after |-> InsertAll(NewPool(PoolNb, kernel.capacity), kernel.entries,
                             Len(kernel.entries))]]
  /\ UNCHANGED <<graph, disk, op, pool, dst, pop_, sgraph, quant, ef_, calls, searcher>>

\* build's extract_graph() on its own
ExtractGraphAct ==
  /\ kernel.fn = "extract" /\ kernel.out = <<>>
  /\ kernel' = [kernel EXCEPT !.out = [g |-> ExtractGraph(kernel.h, kernel.n, BuilderM)]]
  /\ UNCHANGED <<graph, disk, op, pool, dst, pop_, sgraph, quant, ef_, calls, searcher>>

CodesInit ==
  /\ \/ \E dim \in L2Dims \cup IPDims : \E a \in CodeInputs(dim), b \in CodeInputs(dim) :
          \E fn \in (IF dim \in L2Dims THEN {"l2sqr_u4"} ELSE {})
                    \cup (IF dim \in IPDims THEN {"sq4_ip"} ELSE {}) :
             kernel = [fn |-> fn, dim |-> dim, a |-> a, b |-> b, out |-> <<>>]
     \/ \E kind \in {"FP32", "SQ8", "SQ4"}, n \in 1..MaxTrainN, dim \in 1..MaxTrainCells :
          /\ n * dim <= MaxTrainCells
          /\ \E a \in [1..(n * dim) -> {-1, 0, 1, 3}], i \in 0..(n - 1) :
                kernel = [fn |-> "roundtrip", kind |-> kind, dim |-> dim, n |-> n,
                          a |-> a, i |-> i, out |-> <<>>]
     \/ \E kind \in {"hnsw", "search", "quantization"} :
          \E nums \in [Range(ConfigKeys(kind)) -> {0, 48, 300}], flag \in BOOLEAN,
             v \in {0, 48, 300}, b \in BOOLEAN :
             kernel = [fn |-> "config", kind |-> kind,
                       c |-> [key \in Range(ConfigKeys(kind)) |->
                                IF key \in {"allow_replace_deleted", "use_prefetch"}
                                THEN flag ELSE nums[key]],
                       d |-> [key \in Range(ConfigKeys(kind)) |->
                                IF key \in {"allow_replace_deleted", "use_prefetch"}
                                THEN b ELSE v],
                       out |-> <<>>]
     \/ \E names \in SUBSET {"hnsw", "search", "quantization"} :
          \E cv \in [names -> {0, 48, 300}], cb \in [names -> BOOLEAN],
             v \in {0, 48, 300}, b \in BOOLEAN :
             kernel = [fn |-> "config_file",
                       c |-> [name \in names |->
                                [key \in Range(ConfigKeys(name)) |->
                                   IF key \in {"allow_replace_deleted", "use_prefetch"}
                                   THEN cb[name] ELSE cv[name]]],
                       d |-> [name \in {"hnsw", "search", "quantization"} |->
                                [key \in Range(ConfigKeys(name)) |->
                                   IF key \in {"allow_replace_deleted", "use_prefetch"}
                                   THEN b ELSE v]],
                       out |-> <<>>]
     \/ \E K \in 1..DescendK, L \in 1..DescendLevels :
          /\ K * L <= DescendCells
          /\ \E lv \in [1..DescendN -> 0..L] :
               \E lu \in {f \in [1..DescendN -> [1..L -> InjSeqs(0..(DescendN - 1), K)]] :
                             \A i \in 1..DescendN : \A l \in 1..L :
                                /\ (i - 1) \notin Range(f[i][l])
                                /\ l > lv[i] => f[i][l] = <<>>
                                /\ \A x \in Range(f[i][l]) : lv[x + 1] >= l} :
                  \E ep \in {x \in 0..(DescendN - 1) :
                                \A y \in 1..DescendN : lv[y] <= lv[x + 1]},
                     q \in 0..(DescendN - 1) :
                     kernel = [fn |-> "descend", q |-> q, capacity |-> 1,
                               h |-> [present |-> TRUE, N |-> DescendN, K |-> K, ep |-> ep,
                                      levels |-> lv,
                                      lists |-> [i \in 1..DescendN |->
                                         Flatten([l \in 1..lv[i] |->
                                           [k \in 1..K |->
                                              IF k <= Len(lu[i][l]) THEN lu[i][l][k]
                                              ELSE EMPTY_ID]])]],
                               out |-> <<>>]
     \/ \E capacity \in 1..MaxCap, n \in 1..MaxInserts :
          \E entries \in [1..n -> [id : PoolIds, dist : Dists]] :
             kernel = [fn |-> "inserts", capacity |-> capacity, entries |-> entries,
                       out |-> <<>>]
     \/ \E c \in 1..MaxNodes : \E h \in HnswSnapshots(c), n \in 0..c :
          kernel = [fn |-> "extract", h |-> h, n |-> n, out |-> <<>>]
  /\ graph = EmptyGraph /\ disk = NoFile
  /\ op = [name |-> "new", st |-> "ok", addOnly |-> TRUE]
  /\ pool = <<>> /\ dst = <<>> /\ pop_ = <<>>
  /\ sgraph = EmptyGraph /\ quant = <<>> /\ ef_ = 0 /\ calls = <<>> /\ searcher = <<>>

CodesNext ==
  \/ L2SqrSQ4Act
  \/ SQ4QueryDistanceAct
  \/ RoundTripAct
  \/ ConfigRoundTripAct
  \/ ConfigFileAct
  \/ DescendAct
  \/ PoolInsertsAct
  \/ ExtractGraphAct

SpecCodes == CodesInit /\ [][CodesNext]_vars

(* C19: at every dispatch level the installed l2sqr_u4 kernel returns the  *)
(* sum over the lanes 0..dim-1 of the squared lane differences, which is   *)
(* the value of L2SqrSQ4_ref.                                              *)
C19_L2SqrSQ4MatchesRef ==
  (kernel.fn = "l2sqr_u4" /\ kernel.out # <<>>) =>
     \A level \in SIMDLevels :
        /\ kernel.out[level] =
             L2SqrSQ4_ref(SQ4Encode(kernel.a, kernel.dim), SQ4Encode(kernel.b, kernel.dim),
                          kernel.dim)
        /\ kernel.out[level] =
             SumSeq([j \in 1..kernel.dim |->
                       (Lane(SQ4Encode(kernel.a, kernel.dim), j - 1)
                          - Lane(SQ4Encode(kernel.b, kernel.dim), j - 1))
                       * (Lane(SQ4Encode(kernel.a, kernel.dim), j - 1)
                          - Lane(SQ4Encode(kernel.b, kernel.dim), j - 1))],
                    kernel.dim)

(* C20: under IP the SQ4 query distance is 1 minus the sum over the dim    *)
(* lanes of query lane x code lane, and reads the ceil(dim / 2) bytes of   *)
(* the packed code.                                                        *)
C20_SQ4InnerProduct ==
  (kernel.fn = "sq4_ip" /\ kernel.out # <<>>) =>
     /\ kernel.out.dist =
          1 - SumSeq([j \in 1..kernel.dim |->
                        Lane(SQ4Encode(kernel.a, kernel.dim), j - 1)
                        * Lane(SQ4Encode(kernel.b, kernel.dim), j - 1)],
                     kernel.dim)
     /\ kernel.out.bytes = (kernel.dim + 1) \div 2

C22_ConfigRoundTrip ==
  /\ (kernel.fn = "config" /\ kernel.out # <<>>) => kernel.out.back = kernel.c
  /\ (kernel.fn = "config_file" /\ kernel.out # <<>>) =>
        \A name \in DOMAIN kernel.c : kernel.out.loaded[name] = kernel.c[name]

\* a saved hnsw configuration that differs from the defaults in its numbers
\* and in its flag, written as a section of the file, and loaded
C22_Witness ==
  /\ kernel.fn = "config_file" /\ kernel.out # <<>>
  /\ "hnsw" \in DOMAIN kernel.c
  /\ kernel.c["hnsw"]["M"] = 300 /\ kernel.d["hnsw"]["M"] = 48
  /\ kernel.c["hnsw"]["allow_replace_deleted"] # kernel.d["hnsw"]["allow_replace_deleted"]
  /\ \E i \in 1..Len(kernel.out.file) :
        /\ kernel.out.file[i].t = "="
        /\ kernel.out.file[i].token = [key |-> "M", value |-> <<3, 0, 0>>]

(* C23: the descent starts at ep on ep's top level; a pass of a layer ends *)
(* on the node it started from or on a node of that node's list for the    *)
(* layer that is strictly closer to the query; it goes one layer down only *)
(* after a pass in which no node of the current node's list was strictly   *)
(* closer.  On return the pool holds the one entry (u, dist(u)), u is      *)
(* marked visited, dist(u) <= dist(ep), and no layer-1 neighbor of u is    *)
(* strictly closer to the query than u.                                    *)
C23_LayeredDescent ==
  (kernel.fn = "descend" /\ kernel.out # <<>>) =>
     LET h == kernel.h
         steps == kernel.out.best.steps
         u == kernel.out.best.u
         dist(v) == ComputeQueryDistance(SearchData(DescendN), kernel.q, v)
         nbrs(l, v) == Range(LevelList(h, l, v)) \ {EMPTY_ID}
     IN /\ h.levels[h.ep + 1] > 0 =>
             steps[1].u = h.ep /\ steps[1].level = h.levels[h.ep + 1]
        /\ h.levels[h.ep + 1] = 0 => steps = <<>> /\ u = h.ep
        /\ \A i \in 1..Len(steps) :
             /\ steps[i].next # steps[i].u =>
                   /\ steps[i].next \in nbrs(steps[i].level, steps[i].u)
                   /\ dist(steps[i].next) < dist(steps[i].u)
             /\ i < Len(steps) =>
                   /\ steps[i + 1].u = steps[i].next
                   /\ steps[i + 1].level \in {steps[i].level, steps[i].level - 1}
                   /\ steps[i + 1].level = steps[i].level - 1 <=>
                         \A v \in nbrs(steps[i].level, steps[i].u) : dist(v) >= dist(steps[i].u)
             /\ i = Len(steps) =>
                   /\ steps[i].level = 1 /\ steps[i].next = u
                   /\ \A v \in nbrs(1, steps[i].u) : dist(v) >= dist(steps[i].u)
        /\ kernel.out.pool.data = <<[id |-> u, dist |-> dist(u)]>>
        /\ kernel.out.pool.vis = {u}
        /\ dist(u) <= dist(h.ep)
        /\ h.levels[u + 1] >= 1 => \A v \in nbrs(1, u) : dist(v) >= dist(u)

\* a descent that moves on layer 2, goes down, and moves again on layer 1
C23_Witness ==
  /\ kernel.fn = "descend" /\ kernel.out # <<>>
  /\ \E i, j \in 1..Len(kernel.out.best.steps) :
        /\ kernel.out.best.steps[i].level = 2 /\ kernel.out.best.steps[j].level = 1
        /\ kernel.out.best.steps[i].next # kernel.out.best.steps[i].u
        /\ kernel.out.best.steps[j].next # kernel.out.best.steps[j].u

(* C24: after n inserts into a fresh pool of capacity C the pool holds     *)
(* min(C, n) of the inserted entries, and their distances are the first    *)
(* min(C, n) of all the inserted distances in ascending order.  The last   *)
(* insert, made on a full pool, leaves the pool as it was when its         *)
(* distance is at least the worst one, and otherwise takes out the worst   *)
(* entry and nothing else.                                                 *)
C24_PoolKeepsSmallest ==
  (kernel.fn = "inserts" /\ kernel.out # <<>>) =>
     LET n == Len(kernel.entries)
         e == kernel.entries[n]
         before == kernel.out.before.data
         after == kernel.out.after.data
         C == kernel.capacity
         count(q, x) == Cardinality({i \in 1..Len(q) : q[i] = x})
     IN /\ Len(after) = Min(C, n)
        /\ [i \in 1..Len(after) |-> after[i].dist]
             = SubSeq(SortNat([i \in 1..n |-> kernel.entries[i].dist]), 1, Min(C, n))
        /\ \A x \in Range(after) : count(after, x) <= count(kernel.entries, x)
        /\ (Len(before) = C /\ e.dist >= before[C].dist) => after = before
        /\ (Len(before) = C /\ e.dist < before[C].dist) =>
             \A x \in Range(before) \cup {e} :
                count(after, x) = count(before, x) + (IF x = e THEN 1 ELSE 0)
                                  - (IF x = before[C] THEN 1 ELSE 0)

\* an insert into a full pool that takes out the worst entry, after one
\* that was dropped
C24_Witness ==
  /\ kernel.fn = "inserts" /\ kernel.out # <<>>
  /\ Len(kernel.entries) = MaxInserts
  /\ Len(kernel.out.before.data) = kernel.capacity
  /\ kernel.capacity = 2
  /\ kernel.entries[3].dist >= Max(kernel.entries[1].dist, kernel.entries[2].dist)
  /\ kernel.entries[4].dist < kernel.out.before.data[2].dist
  /\ kernel.out.after.data # kernel.out.before.data

\* g is the Graph of the first n elements of the index h, as C25 describes it
Extracted(g, h, n) ==
  /\ g.num_nodes = n /\ g.max_degree = 2 * BuilderM
  /\ \A i \in 0..(n - 1) : \A j \in 0..(2 * BuilderM - 1) :
       At(g, i, j) = IF j < Len(h.link0[i + 1]) THEN h.link0[i + 1][j + 1] ELSE EMPTY_ID
  /\ g.initializer.present
  /\ g.initializer.N = n /\ g.initializer.K = BuilderM
  /\ \A i \in 1..n :
       /\ g.initializer.levels[i] = h.levels[i]
       /\ Len(g.initializer.lists[i]) = h.levels[i] * BuilderM
       /\ \A l \in 1..h.levels[i] : \A k \in 1..BuilderM :
            LevelList(g.initializer, l, i - 1)[k]
              = IF k <= Len(h.linkU[i][l]) THEN h.linkU[i][l][k] ELSE EMPTY_ID
  /\ g.entry_points = <<g.initializer.ep>>
  /\ g.initializer.ep = h.ep

(* C25 as stated: for every n, build returns a Graph of n nodes and        *)
(* max_degree 2M whose rows are the level-0 lists followed by -1, whose    *)
(* LayerInitializer holds every node's level and upper-layer lists, and    *)
(* whose entry_points is {ep}.                                             *)
C25_BuildExtracts ==
  (kernel.fn = "extract" /\ kernel.out # <<>>) =>
     Extracted(kernel.out.g, kernel.h, kernel.n)

(* C25 for the builds that have points: with n >= 1 the Graph is as        *)
(* stated, and with n = 0 build returns the empty Graph (no nodes,         *)
(* max_degree 0, no LayerInitializer, no entry point).                     *)
C25_BuildExtractsPoints ==
  (kernel.fn = "extract" /\ kernel.out # <<>>) =>
     IF kernel.n >= 1 THEN Extracted(kernel.out.g, kernel.h, kernel.n)
     ELSE kernel.out.g = EmptyGraph

\* two nodes, one with an upper layer and a neighbor on it, and a row with
\* a free slot
C25_Witness ==
  /\ kernel.fn = "extract" /\ kernel.out # <<>> /\ kernel.n = 2
  /\ \E i \in 1..2 : kernel.h.levels[i] = 1 /\ kernel.h.linkU[i][1] # <<>>
  /\ \E i \in 0..1 : At(kernel.out.g, i, 0) # EMPTY_ID /\ At(kernel.out.g, i, 1) = EMPTY_ID

(* C26: every code prefetch that a Search call issues names a real node    *)
(* id (0 <= id < nb_), never the -1 of a sentinel slot: prefetch_data has  *)
(* no range check of its own, so any other id is an address outside the    *)
(* codes.                                                                  *)
C26_PrefetchRealIds ==
  \A c \in 1..Len(calls) :
     (calls[c].pc = "done" /\ "run" \in DOMAIN calls[c]) =>
        \A i \in 1..Len(calls[c].run.hints) :
           calls[c].run.hints[i].what = "code" =>
              calls[c].run.hints[i].id \in 0..(searcher.nb_ - 1)

(***************************************************************************)
(* SpecTerminate: one Search call at a time over the graphs a caller can   *)
(* write through at() and set_entry_points (rows with cycles, self-loops,  *)
(* repeated neighbors and sentinels anywhere, entry points with            *)
(* repetitions or none) and the graphs build extracts.  A thread that is inside Search keeps running:   *)
(* each of its steps is weakly fair.                                       *)
(***************************************************************************)
TerminateInit ==
  /\ \E n \in 1..MaxNodes :
       sgraph \in {FixtureGraph(n, MaxDegree, rows, eps) :
                     rows \in [1..n -> [1..MaxDegree -> {EMPTY_ID} \cup 0..(n - 1)]],
                     eps \in SeqsUpTo(0..(n - 1), n)}
                  \cup BuiltGraphs(n)
  /\ quant = Untrained
  /\ searcher = NewSearcher
  /\ ef_ = DefaultEf
  /\ calls = <<>>
  /\ graph = EmptyGraph /\ disk = NoFile
  /\ op = [name |-> "new", st |-> "ok", addOnly |-> TRUE]
  /\ pool = <<>> /\ dst = <<>> /\ pop_ = <<>> /\ kernel = <<>>

TerminateNext ==
  \/ SetDataAct
  \/ SearchBeginAct /\ calls = <<>>
  \/ SearchInitAct
  \/ SearchExpandAct
  \/ SearchReorderAct

SpecTerminate ==
  /\ TerminateInit /\ [][TerminateNext]_vars
  /\ WF_vars(SearchInitAct) /\ WF_vars(SearchExpandAct) /\ WF_vars(SearchReorderAct)

(* C27: a Search call that has begun returns; and in the layer-0 loop a    *)
(* distance is computed only for a node that was not yet marked visited,   *)
(* which is then marked: the pool never holds more entries than nodes were *)
(* marked or inserted as entry points, and the marked nodes are nodes of   *)
(* the graph, so the loop computes at most N distances.                    *)
C27_SearchTerminates ==
  /\ (calls # <<>> /\ InFlight(calls[1])) ~> (calls # <<>> /\ Done(calls[1]))
  /\ [][\A c \in 1..Len(calls) :
          (Len(calls') = Len(calls) /\ calls[c].pc = "loop") =>
             /\ calls[c].pool.vis \subseteq calls'[c].pool.vis
             /\ calls'[c].pool.vis \subseteq 0..(searcher.nb_ - 1)
             /\ \A i \in 1..Len(calls'[c].pool.data) :
                   \/ calls'[c].pool.data[i].id \in calls'[c].pool.vis \ calls[c].pool.vis
                   \/ calls'[c].pool.data[i] \in Range(calls[c].pool.data)]_vars

\* a call over a hand-written graph with a self-loop and a repeated neighbor
\* that has returned after expanding two nodes
C27_Witness ==
  /\ calls # <<>> /\ Done(calls[1])
  /\ sgraph.num_nodes = 2 /\ ~sgraph.initializer.present
  /\ At(sgraph, 0, 0) = 0 /\ At(sgraph, 1, 0) = 0 /\ At(sgraph, 1, 1) = 0
  /\ calls[1].pool.cur >= 2

(* C28: when the layer-0 loop has exited, every entry of the pool lies     *)
(* before the cursor, the entries before the cursor are entries that were  *)
(* popped where they stand (a step never changes the pool before its new   *)
(* cursor), and every non-sentinel id in the row of every pool entry is    *)
(* marked visited.                                                         *)
C28_PoolExplored ==
  /\ [](\A c \in 1..Len(calls) :
          Done(calls[c]) =>
             /\ calls[c].pool.cur = Len(calls[c].pool.data)
             /\ \A i \in 1..Len(calls[c].pool.data), j \in 0..(sgraph.max_degree - 1) :
                   At(sgraph, calls[c].pool.data[i].id, j) # EMPTY_ID =>
                      At(sgraph, calls[c].pool.data[i].id, j) \in calls[c].pool.vis)
  /\ [][\A c \in 1..Len(calls) :
          (Len(calls') = Len(calls) /\ calls[c].pc = "loop" /\ calls'[c].pc = "loop") =>
             /\ calls'[c].pool.cur <= calls[c].pool.cur + 1
             /\ \A i \in 1..calls'[c].pool.cur :
                   calls'[c].pool.data[i] = calls[c].pool.data[i]]_vars

(* C29: in the LayerInitializer of a Graph that build has extracted or     *)
(* load has filled, lists[u] holds exactly level[u] * K entries for every  *)
(* node u, and every non-sentinel id v stored in layer l of u is a node    *)
(* whose level is at least l.                                              *)
C29_InitializerLayers ==
  (graph.initializer.present /\ ~(op.name = "load" /\ op.st # "ok")) =>
     /\ Len(graph.initializer.lists) = Len(graph.initializer.levels)
     /\ \A u \in 1..Len(graph.initializer.levels) :
          /\ Len(graph.initializer.lists[u]) = graph.initializer.levels[u] * graph.initializer.K
          /\ \A x \in 1..Len(graph.initializer.lists[u]) :
                graph.initializer.lists[u][x] # EMPTY_ID =>
                   /\ graph.initializer.lists[u][x] + 1 \in 1..Len(graph.initializer.levels)
                   /\ graph.initializer.K > 0
                   /\ graph.initializer.levels[graph.initializer.lists[u][x] + 1]
                         >= (x - 1) \div graph.initializer.K + 1

(* C30: in every state of a DenseGraph, metadata().total_edges is the sum  *)
(* of degree(i) over the nodes.                                            *)
C30_TotalEdgesIsDegreeSum ==
  ~(op.name = "load" /\ op.st # "ok") => graph.total_edges = SumSeq(graph.degrees, Len(graph.degrees))

====
